---- MODULE Spec2Model ----
(***************************************************************************)
(* Model of the graph view of json-forge                                   *)
(* (src/components/JsonTreeView.tsx): the recursive GraphNode renderer     *)
(* with its expansion budget and pagination, the bulk expand/collapse      *)
(* broadcast, and the viewport controller of JsonGraphView.                *)
(*                                                                         *)
(* A mounted GraphNode is identified by its position path: the sequence of *)
(* 1-based positions, in Object.keys order, leading from the root to it.   *)
(* Scale and translation are exact rational numbers.                       *)
(***************************************************************************)
EXTENDS Integers, Sequences, FiniteSets, TLC

(***************************************************************************)
(* Bounds of the model (none of them is a program constant).               *)
(***************************************************************************)
\* The user clicks (toggle, show more) only nodes that are, like each of
\* their ancestors, among the first MaxClickIndex children of their parent.
MaxClickIndex == 2
\* At most this many bulk actions (the id of globalAction) in one run.
MaxGlobalId == 2
\* At most this many viewport operations in one run of the viewport
\* specification.
MaxViewSteps == 3
\* Enter is pressed in the search box at most this many times
MaxSearchTrigger == 3
\* At most this many hide timers of the tooltip are pending at a time
MaxPendingHides == 2

(***************************************************************************)
(* Program constants.                                                      *)
(***************************************************************************)
InitialBudget == 50
PageSize == 50
ExpandAllThreshold == 5000

Min(a, b) == IF a < b THEN a ELSE b
Max(a, b) == IF a > b THEN a ELSE b

(***************************************************************************)
(* Exact rational numbers [n, d] in lowest terms with d > 0, for the       *)
(* numbers of the viewport (scale, translation).                           *)
(***************************************************************************)
Abs(a) == IF a < 0 THEN -a ELSE a

RECURSIVE Gcd(_, _)
Gcd(a, b) == IF b = 0 THEN a ELSE Gcd(b, a % b)

Rat(n, d) ==
    LET g == Gcd(Abs(n), Abs(d))
        sgn == IF d < 0 THEN -1 ELSE 1
    IN [n |-> sgn * (n \div g), d |-> sgn * (d \div g)]
Int2Rat(i) == [n |-> i, d |-> 1]
RAdd(a, b) == Rat(a.n * b.d + b.n * a.d, a.d * b.d)
RSub(a, b) == Rat(a.n * b.d - b.n * a.d, a.d * b.d)
RMul(a, b) == Rat(a.n * b.n, a.d * b.d)
RDiv(a, b) == Rat(a.n * b.d, a.d * b.n)
RLess(a, b) == a.n * b.d < b.n * a.d
RLeq(a, b) == a.n * b.d <= b.n * a.d
RMin(a, b) == IF RLess(b, a) THEN b ELSE a
RMax(a, b) == IF RLess(a, b) THEN b ELSE a

(***************************************************************************)
(* JSON values, as JSON.parse returns them.  An object keeps its members   *)
(* as the sequence of [key, val] in the order of the text; a key is a      *)
(* sequence of characters.                                                 *)
(***************************************************************************)
Num(n) == [type |-> "number", val |-> n]
Str(s) == [type |-> "string", val |-> s]
Bool(b) == [type |-> "boolean", val |-> b]
Null == [type |-> "null"]
Arr(items) == [type |-> "array", items |-> items]
Obj(members) == [type |-> "object", members |-> members]
Member(k, v) == [key |-> k, val |-> v]

getDataType(value) == value.type

Digits == <<"0", "1", "2", "3", "4", "5", "6", "7", "8", "9">>
DigitOf(c) == (CHOOSE i \in 1..10 : Digits[i] = c) - 1
IsDigit(c) == \E i \in 1..10 : Digits[i] = c

RECURSIVE DecimalValue(_)
DecimalValue(key) ==
    IF key = <<>> THEN 0
    ELSE 10 * DecimalValue(SubSeq(key, 1, Len(key) - 1)) + DigitOf(key[Len(key)])

\* A property name that is a canonical array index ("0", "7", "12", not
\* "07"): Object.keys lists these first, in ascending numeric order.
IsIntegerKey(key) ==
    /\ Len(key) > 0
    /\ Len(key) <= 9
    /\ \A i \in 1..Len(key) : IsDigit(key[i])
    /\ (Len(key) > 1 => key[1] # "0")

RECURSIVE SortByValue(_, _)
SortByValue(value, idx) ==
    IF idx = {} THEN <<>>
    ELSE LET m == CHOOSE i \in idx : \A j \in idx :
                     DecimalValue(value.members[i].key) <= DecimalValue(value.members[j].key)
         IN <<m>> \o SortByValue(value, idx \ {m})

RECURSIVE Filter(_, _, _)
Filter(value, i, wantInteger) ==
    IF i > Len(value.members) THEN <<>>
    ELSE (IF IsIntegerKey(value.members[i].key) = wantInteger THEN <<i>> ELSE <<>>)
         \o Filter(value, i + 1, wantInteger)

\* Object.keys(value) as the sequence of member positions it enumerates:
\* integer keys ascending, then the other keys in insertion order; array
\* indices in order.
KeyOrder(value) ==
    IF getDataType(value) = "array" THEN [i \in 1..Len(value.items) |-> i]
    ELSE IF getDataType(value) = "object"
         THEN LET ints == {i \in 1..Len(value.members) : IsIntegerKey(value.members[i].key)}
              IN IF ints = {} THEN [i \in 1..Len(value.members) |-> i]
                 ELSE SortByValue(value, ints) \o Filter(value, 1, FALSE)
         ELSE <<>>

\* value[keys[k]] for the k-th key of Object.keys(value)
ChildValue(value, k) ==
    IF getDataType(value) = "array" THEN value.items[k]
    ELSE value.members[KeyOrder(value)[k]].val

NumKeys(value) ==
    IF getDataType(value) = "array" THEN Len(value.items)
    ELSE IF getDataType(value) = "object" THEN Len(value.members)
         ELSE 0

IsExpandable(value) == getDataType(value) \in {"object", "array"}

(***************************************************************************)
(* Strings are sequences of characters.                                    *)
(***************************************************************************)
UpperCase == <<"A", "B", "C", "D", "E", "F", "G", "H", "I", "J", "K", "L", "M",
               "N", "O", "P", "Q", "R", "S", "T", "U", "V", "W", "X", "Y", "Z">>
LowerCase == <<"a", "b", "c", "d", "e", "f", "g", "h", "i", "j", "k", "l", "m",
               "n", "o", "p", "q", "r", "s", "t", "u", "v", "w", "x", "y", "z">>

\* s.toLowerCase()
LowerOf == [c \in {UpperCase[k] : k \in 1..26} |->
                LowerCase[CHOOSE k \in 1..26 : UpperCase[k] = c]]
toLowerCase(s) ==
    [i \in 1..Len(s) |-> IF s[i] \in DOMAIN LowerOf THEN LowerOf[s[i]] ELSE s[i]]

\* s.includes(t)
includes(s, t) ==
    \E i \in 0..(Len(s) - Len(t)) : SubSeq(s, i + 1, i + Len(t)) = t

\* The decimal digits of a natural number
RECURSIVE DigitsOf(_)
DigitsOf(n) ==
    IF n < 10 THEN <<Digits[n + 1]>>
    ELSE DigitsOf(n \div 10) \o <<Digits[(n % 10) + 1]>>

\* String(value) of a scalar (the numbers of the model are integers)
String(value) ==
    CASE getDataType(value) = "string" -> value.val
      [] getDataType(value) = "number" ->
            IF value.val < 0 THEN <<"-">> \o DigitsOf(-value.val) ELSE DigitsOf(value.val)
      [] getDataType(value) = "boolean" ->
            IF value.val THEN <<"t", "r", "u", "e">> ELSE <<"f", "a", "l", "s", "e">>
      [] getDataType(value) = "null" -> <<"n", "u", "l", "l">>

\* The key of the k-th child as Object.keys gives it: the index of an array
\* in decimal digits, the key of an object
ChildKey(value, k) ==
    IF getDataType(value) = "array" THEN DigitsOf(k - 1)
    ELSE value.members[KeyOrder(value)[k]].key

\* /^[a-zA-Z_$][a-zA-Z0-9_$]*$/.test(key)
IsIdentifierStart(c) == c \in DOMAIN LowerOf \/ c \in {LowerOf[u] : u \in DOMAIN LowerOf} \/ c \in {"_", "$"}
IsIdentifier(key) ==
    /\ Len(key) >= 1
    /\ IsIdentifierStart(key[1])
    /\ \A i \in 2..Len(key) : IsIdentifierStart(key[i]) \/ IsDigit(key[i])

\* key.replace(/"/g, '\\"'): a backslash before every double quote
RECURSIVE escapeQuotes(_)
escapeQuotes(key) ==
    IF key = <<>> THEN <<>>
    ELSE (IF Head(key) = "\"" THEN <<"\\", "\"">> ELSE <<Head(key)>>)
         \o escapeQuotes(Tail(key))

\* Variant of getChildPath that writes every object key in dot form
getChildPath_alwaysDot(parentPath, key, parentType) ==
    IF parentType = "array" THEN parentPath \o <<"[">> \o key \o <<"]">>
    ELSE parentPath \o <<".">> \o key

\* getChildPath(parentPath, key, parentType)
getChildPath(parentPath, key, parentType) ==
    IF parentType = "array" THEN parentPath \o <<"[">> \o key \o <<"]">>
    ELSE IF IsIdentifier(key) THEN parentPath \o <<".">> \o key
         ELSE parentPath \o <<"[", "\"">> \o escapeQuotes(key) \o <<"\"", "]">>

\* The prop `name` a GraphNode passes to its k-th child: `[${key}]` in an
\* array, the key in an object
ChildName(value, k) ==
    IF getDataType(value) = "array" THEN <<"[">> \o DigitsOf(k - 1) \o <<"]">>
    ELSE value.members[KeyOrder(value)[k]].key

\* isMatch of a GraphNode; name = <<>> stands for a missing name (the
\* root), which is falsy like the empty key
isMatch(name, value, searchTerm) ==
    IF searchTerm = <<>> THEN FALSE
    ELSE LET term == toLowerCase(searchTerm)
         IN IF name # <<>> /\ includes(toLowerCase(name), term) THEN TRUE
            ELSE IF ~IsExpandable(value) /\ getDataType(value) # "null"
                 THEN includes(toLowerCase(String(value)), term)
                 ELSE FALSE

(***************************************************************************)
(* The texts the view is given (the prop `value`) and what JSON.parse      *)
(* makes of each.                                                          *)
(*   "W"        {"rows":[0,1,2,[],...,[],49,...,54,[7],56,...,119],"n":1}  *)
(*              (120 items; those at indices 3..48 are empty arrays)       *)
(*   "C"        {"b":[[],[],[],[[]],...,[[]]],"1":[],"c":[],"n":1}         *)
(*              ("b": 30 items; Object.keys gives "1", "b", "c", "n")      *)
(*   "Big5000"  [0,...,49,G,[],...,[]]  with G = [0,...,49,H,...,H] (70 H, *)
(*              H = 70 empty arrays) and 28 trailing empty arrays: 5000    *)
(*              arrays and objects in all                                  *)
(*   "Big5001"  the same with 29 trailing empty arrays: 5001               *)
(*   "S"        {"tags":["Alpha","beta",null,true,12],"nil":null,          *)
(*               "9":"ALPHA","Name":"alpha"}                               *)
(*              (Object.keys gives "9", "tags", "nil", "Name")             *)
(*   "P"        {"rows":["Alp",0,...,0,"alpha",0]}: 52 items, "alpha" at   *)
(*              index 50, behind the first page                            *)
(*   "K"        an object whose keys hold quotes, backslashes, dots and    *)
(*              brackets, the empty key, an integer key and identifiers    *)
(*   "7"        the number 7                                               *)
(*   "null"     the literal null                                           *)
(*   "bad"      {"a":}    (not JSON)                                       *)
(***************************************************************************)
DocW == Obj(<<Member(<<"r", "o", "w", "s">>,
                     Arr([i \in 1..120 |-> IF i \in 4..49 THEN Arr(<<>>)
                                           ELSE IF i = 56 THEN Arr(<<Num(7)>>)
                                           ELSE Num(i - 1)])),
              Member(<<"n">>, Num(1))>>)

DocC == Obj(<<Member(<<"b">>, Arr([i \in 1..30 |-> IF i <= 3 THEN Arr(<<>>)
                                                   ELSE Arr(<<Arr(<<>>)>>)])),
              Member(<<"1">>, Arr(<<>>)),
              Member(<<"c">>, Arr(<<>>)),
              Member(<<"n">>, Num(1))>>)

BigH == Arr([i \in 1..70 |-> Arr(<<>>)])
BigG == Arr([i \in 1..120 |-> IF i <= 50 THEN Num(i - 1) ELSE BigH])
DocBig(extra) == Arr([i \in 1..(51 + extra) |->
                        IF i <= 50 THEN Num(i - 1) ELSE IF i = 51 THEN BigG ELSE Arr(<<>>)])
DocBig5000 == DocBig(28)
DocBig5001 == DocBig(29)

DocS == Obj(<<Member(<<"t", "a", "g", "s">>,
                     Arr(<<Str(<<"A", "l", "p", "h", "a">>), Str(<<"b", "e", "t", "a">>),
                           Null, Bool(TRUE), Num(12)>>)),
              Member(<<"n", "i", "l">>, Null),
              Member(<<"9">>, Str(<<"A", "L", "P", "H", "A">>)),
              Member(<<"N", "a", "m", "e">>, Str(<<"a", "l", "p", "h", "a">>))>>)

DocP == Obj(<<Member(<<"r", "o", "w", "s">>,
                     Arr([i \in 1..52 |-> IF i = 1 THEN Str(<<"A", "l", "p">>)
                                          ELSE IF i = 51 THEN Str(<<"a", "l", "p", "h", "a">>)
                                          ELSE Num(0)]))>>)

DocK == Obj(<<Member(<<"o", "k">>,
                     Obj(<<Member(<<"i", "n", " ", "n", "e", "r">>,
                                  Arr(<<Num(10), Obj(<<Member(<<"q", "\"">>, Num(11))>>)>>))>>)),
              Member(<<"a", "\"", "b">>, Num(2)),
              Member(<<"a", "\\">>, Num(3)),
              Member(<<>>, Num(4)),
              Member(<<"a", ".", "b">>, Num(5)),
              Member(<<"[", "0", "]">>, Num(6)),
              Member(<<"]">>, Num(7)),
              Member(<<"\\", "\\">>, Num(8)),
              Member(<<"\\">>, Num(12)),
              Member(<<"$", "_", "x", "1">>, Num(9)),
              Member(<<"9">>, Num(1))>>)

\* The documents of the table specification. U has the rows of T replaced
\* by a number and has no member "constructor"
ConstructorKey == <<"c", "o", "n", "s", "t", "r", "u", "c", "t", "o", "r">>
DocT == Obj(<<Member(<<"r", "o", "w", "s">>,
                     Arr(<<Obj(<<Member(<<"i", "n">>, Obj(<<Member(<<"x">>, Num(1))>>))>>),
                           Num(5)>>)),
              Member(ConstructorKey, Obj(<<Member(<<"y">>, Arr(<<>>))>>))>>)
DocU == Obj(<<Member(<<"r", "o", "w", "s">>, Arr(<<Num(1)>>))>>)

Texts == {"W", "C", "Big5000", "Big5001", "7", "null", "bad"}
\* The texts of the search specification
SearchTexts == {"S", "bad"}
\* The text of the specification of searching a paginated document
PageTexts == {"P"}
\* The text of the tooltip specifications
TooltipTexts == {"K"}
\* The texts of the table specification: T, U and S, the scalars and a text
\* that is not JSON
TableTexts == {"T", "U", "S", "0", "7", "null", "bad"}

\* JSON.stringify(value, null, indent) of the documents that the editor
\* formats: a number of one digit, null, or an array of them (indent 0:
\* JSON.stringify(value))
DigitText == <<"0", "1", "2", "3", "4", "5", "6", "7", "8", "9">>
RECURSIVE spaces(_)
spaces(n) == IF n = 0 THEN "" ELSE " " \o spaces(n - 1)
scalarText(v) == IF getDataType(v) = "null" THEN "null" ELSE DigitText[v.val + 1]
RECURSIVE joinItems(_, _, _)
joinItems(items, sep, pad) ==
    IF Len(items) = 1 THEN pad \o scalarText(items[1])
    ELSE pad \o scalarText(Head(items)) \o sep \o joinItems(Tail(items), sep, pad)
JSONstringify(v, indent) ==
    IF getDataType(v) = "array"
    THEN IF v.items = <<>> THEN "[]"
         ELSE IF indent = 0 THEN "[" \o joinItems(v.items, ",", "") \o "]"
              ELSE "[\n" \o joinItems(v.items, ",\n", spaces(indent)) \o "\n]"
    ELSE scalarText(v)

\* The documents of the editor specification, the indentations of the
\* toolbar, and the texts of the documents in every layout
Sevens == Arr([i \in 1..10 |-> Num(7)])
AppDocs == {Num(7), Sevens}
Indents == {2, 4}
Layouts == {0} \cup Indents
FormattedTexts == {JSONstringify(d, i) : d \in AppDocs, i \in Layouts}
\* The texts of the editor specification: the formatted ones, a number typed
\* after a blank, a text that is not JSON, and the empty text
AppTexts == FormattedTexts \cup {" 7", "bad", ""}

\* text.trim()
trim(text) == IF text = " 7" THEN "7" ELSE text

AllTexts == Texts \cup SearchTexts \cup PageTexts \cup TooltipTexts
               \cup TableTexts \cup AppTexts

\* JSON.parse(value): ok = FALSE stands for the SyntaxError it throws
JSONparse(text) ==
    CASE text = "W" -> [ok |-> TRUE, data |-> DocW]
      [] text = "C" -> [ok |-> TRUE, data |-> DocC]
      [] text = "Big5000" -> [ok |-> TRUE, data |-> DocBig5000]
      [] text = "Big5001" -> [ok |-> TRUE, data |-> DocBig5001]
      [] text = "S" -> [ok |-> TRUE, data |-> DocS]
      [] text = "P" -> [ok |-> TRUE, data |-> DocP]
      [] text = "K" -> [ok |-> TRUE, data |-> DocK]
      [] text = "7" -> [ok |-> TRUE, data |-> Num(7)]
      [] text = "null" -> [ok |-> TRUE, data |-> Null]
      [] text = " 7" -> [ok |-> TRUE, data |-> Num(7)]
      [] text = "0" -> [ok |-> TRUE, data |-> Num(0)]
      [] text = "T" -> [ok |-> TRUE, data |-> DocT]
      [] text = "U" -> [ok |-> TRUE, data |-> DocU]
      [] text \in FormattedTexts ->
            [ok |-> TRUE,
             data |-> CHOOSE d \in AppDocs : \E i \in Layouts : JSONstringify(d, i) = text]
      [] OTHER -> [ok |-> FALSE]

\* traverse(data) of the parsedData memo: the number of arrays and objects
\* (Object.values(obj).forEach sums over the range lo..hi, halved to keep the
\* evaluation shallow)
RECURSIVE traverse(_)
RECURSIVE traverseValues(_, _, _)
traverse(obj) ==
    IF IsExpandable(obj) THEN 1 + traverseValues(obj, 1, NumKeys(obj)) ELSE 0
traverseValues(obj, lo, hi) ==
    IF lo > hi THEN 0
    ELSE IF lo = hi THEN traverse(ChildValue(obj, lo))
         ELSE traverseValues(obj, lo, (lo + hi) \div 2)
              + traverseValues(obj, (lo + hi) \div 2 + 1, hi)

\* The memo { parsedData, graphKey, expandableNodeCount } of JsonGraphView.
\* parsedData is null both when the text does not parse and when it parses
\* to null.
parsedData(text) ==
    IF JSONparse(text).ok THEN JSONparse(text).data ELSE Null
\* (the memo is computed once for each text)
expandableNodeCountMemo ==
    [text \in AllTexts |-> IF JSONparse(text).ok THEN traverse(JSONparse(text).data) ELSE 0]
expandableNodeCount(text) == expandableNodeCountMemo[text]
showsPlaceholder(text) == getDataType(parsedData(text)) = "null"

(***************************************************************************)
(* GraphNode                                                               *)
(***************************************************************************)
\* Variants of the initializer with a slip: `budget >= 0` for `budget > 0`,
\* and a root that pays for its expansion.
isExpandedInit_offByOne(depth, isExpandable, budgetNow) ==
    IF depth = 0 THEN [isExpanded |-> TRUE, budget |-> budgetNow]
    ELSE IF isExpandable /\ budgetNow >= 0
         THEN [isExpanded |-> TRUE, budget |-> budgetNow - 1]
         ELSE [isExpanded |-> FALSE, budget |-> budgetNow]
isExpandedInit_rootPays(depth, isExpandable, budgetNow) ==
    IF isExpandable /\ budgetNow > 0
    THEN [isExpanded |-> TRUE, budget |-> budgetNow - 1]
    ELSE [isExpanded |-> depth = 0, budget |-> budgetNow]

\* useState initializer of isExpanded: the flag and the budget it leaves
isExpandedInit(depth, isExpandable, budgetNow) ==
    IF depth = 0 THEN [isExpanded |-> TRUE, budget |-> budgetNow]
    ELSE IF isExpandable /\ budgetNow > 0
         THEN [isExpanded |-> TRUE, budget |-> budgetNow - 1]
         ELSE [isExpanded |-> FALSE, budget |-> budgetNow]

\* One render of the subtree of a node.  old: the states of the nodes that
\* are mounted; acc: the nodes rendered so far in this pass, the budget and
\* the record of the nodes constructed (mounted) by this pass.
RECURSIVE GraphNode(_, _, _, _, _, _)
RECURSIVE GraphNodeChildren(_, _, _, _, _, _, _, _)
GraphNode(value, depth, path, old, acc, pass) ==
    LET isExpandable == IsExpandable(value)
        mounted == path \in DOMAIN old
        init == isExpandedInit(depth, isExpandable, acc.budget)
        state == IF mounted THEN old[path]
                 ELSE [type |-> getDataType(value), isExpanded |-> init.isExpanded,
                       visibleItems |-> PageSize, clicks |-> 0]
        acc1 == IF mounted
                THEN [acc EXCEPT !.nodes = @ @@ (path :> state)]
                ELSE [nodes |-> acc.nodes @@ (path :> state),
                      budget |-> init.budget,
                      log |-> Append(acc.log,
                                [path |-> path, depth |-> depth,
                                 isExpandable |-> isExpandable,
                                 before |-> acc.budget, after |-> init.budget,
                                 isExpanded |-> init.isExpanded, pass |-> pass])]
        nkeys == NumKeys(value)
    IN IF isExpandable /\ state.isExpanded /\ nkeys # 0
       THEN GraphNodeChildren(value, depth, path, old, acc1, pass, 1,
                              Min(nkeys, state.visibleItems))
       ELSE acc1

\* keys.slice(0, visibleItems).map(...): the children lo..hi in key order
\* (the range is halved, and the left half evaluated before the right one is
\* entered, to keep the evaluation shallow)
GraphNodeChildren(value, depth, path, old, acc, pass, lo, hi) ==
    IF lo > hi THEN acc
    ELSE IF lo = hi
         THEN GraphNode(ChildValue(value, lo), depth + 1, Append(path, lo), old, acc, pass)
         ELSE LET mid == (lo + hi) \div 2
                  left == GraphNodeChildren(value, depth, path, old, acc, pass, lo, mid)
              IN IF left.budget \notin Int THEN left
                 ELSE GraphNodeChildren(value, depth, path, old, left, pass, mid + 1, hi)

\* Variant of the effect that forgets the root guard of 'collapse'
globalActionEffect_noRootGuard(state, actionType, isExpandable, depth) ==
    IF actionType = "expand"
    THEN (IF isExpandable THEN [state EXCEPT !.isExpanded = TRUE] ELSE state)
    ELSE IF actionType = "collapse"
         THEN [state EXCEPT !.isExpanded = FALSE]
         ELSE state

\* The effect of a GraphNode on globalAction
globalActionEffect(state, actionType, isExpandable, depth) ==
    IF actionType = "expand"
    THEN (IF isExpandable THEN [state EXCEPT !.isExpanded = TRUE] ELSE state)
    ELSE IF actionType = "collapse"
         THEN (IF depth # 0 THEN [state EXCEPT !.isExpanded = FALSE] ELSE state)
         ELSE state

\* The value at a position path
RECURSIVE ValueAt(_, _)
ValueAt(value, path) ==
    IF path = <<>> THEN value
    ELSE ValueAt(ChildValue(value, Head(path)), Tail(path))

\* Render the tree, run the globalAction effect of the nodes in effectOf
\* (all of them after a change of globalAction, else the nodes this render
\* mounted), and render again until no effect changes a state.
RECURSIVE Commit(_, _, _, _, _, _)
Commit(root, old, acc, runAll, actionType, pass) ==
    LET r == GraphNode(root, 0, <<>>, old, [acc EXCEPT !.nodes = <<>>], pass)
        effectOf == IF runAll THEN DOMAIN r.nodes ELSE DOMAIN r.nodes \ DOMAIN old
        after == [p \in DOMAIN r.nodes |->
                    IF p \in effectOf
                    THEN globalActionEffect(r.nodes[p], actionType,
                                            r.nodes[p].type \in {"object", "array"}, Len(p))
                    ELSE r.nodes[p]]
    IN IF actionType = "idle" \/ after = r.nodes THEN r
       ELSE Commit(root, after, r, FALSE, actionType, pass + 1)

(***************************************************************************)
(* State                                                                   *)
(***************************************************************************)
VARIABLES
    value,          \* the prop `value` of JsonGraphView: the text shown
    nodes,          \* position path -> [type, isExpanded, visibleItems, clicks] of
                    \* each mounted GraphNode (type: the data type of its prop
                    \* `value`; clicks: how often its "show next 50" was clicked)
    budget,         \* expansionConfig.budget
    graphKey,       \* "error" or "random": the kind of key of the parsedData memo
    globalAction,   \* [type, id]
    log,            \* the GraphNodes constructed by the last operation, in order
    lastOp,         \* the last operation and what it was applied to
    scale,          \* state `scale` of JsonGraphView (a rational)
    position,       \* state `position`: [x, y] (rationals)
    isPanning,      \* isPanningRef.current
    lastTouch,      \* lastTouchRef.current: [x, y] or NoTouch
    viewSteps,      \* the number of viewport operations so far
    searchInput,    \* App state searchTerm: the text of the search box
    searchTerm,     \* App state debouncedSearchTerm: the prop searchTerm
    searchTrigger,  \* App state searchTrigger
    searchMatchCount, \* App state searchMatchCount: NullCount or Count(n)
    matchIndex,     \* matchIndexRef.current
    findTimer,      \* a setTimeout(() => findAndFocusMatch(0), 100) is pending
    tooltipData,    \* state tooltipData: NoTooltip (null) or the hovered node's data
    tooltipPosition, \* state position of the Tooltip component: NoPosition or top, left
    isWheeling,     \* isWheelingRef.current
    wheelTimer,     \* the timer in wheelTimeoutRef is pending
    hideTimers,     \* the pending hide timers, oldest first; TRUE marks the
                    \* one whose id is in timeoutRef
    hover,          \* what the pointer is over: nothing, a node card, the tooltip
    jsonInput,      \* App state jsonInput: the text in the editor
    inputTimers,    \* the pending timers of the input debounce effect, oldest
                    \* first, each with the text it will commit
    searchTimers,   \* the pending timers of the search debounce effect
    viewMode,       \* App state viewMode: "code", "graph" or "table"
    indentation,    \* App state indentation
    toasts,         \* App state toasts: the notifications shown, oldest first,
                    \* each [id, type]; each has its Toast component and timer
    tablePath,      \* state path of JsonTableView: the segments navigated
    copied,         \* state copied of the Tooltip with the copy button
    copyTimers      \* the number of pending setTimeout(() => setCopied(false))

graphVars == <<value, nodes, budget, graphKey, globalAction, log>>
viewVars == <<scale, position, isPanning, lastTouch, viewSteps>>
searchVars == <<searchInput, searchTerm, searchTrigger, searchMatchCount,
                matchIndex, findTimer>>
vars == <<value, nodes, budget, graphKey, globalAction, log, lastOp,
          scale, position, isPanning, lastTouch, viewSteps,
          searchInput, searchTerm, searchTrigger, searchMatchCount,
          matchIndex, findTimer,
          tooltipData, tooltipPosition, isWheeling, wheelTimer, hideTimers, hover,
          jsonInput, inputTimers, searchTimers,
          viewMode, indentation, toasts, tablePath, copied, copyTimers>>
appVars == <<viewMode, indentation, toasts, tablePath, copied, copyTimers>>
debounceVars == <<jsonInput, inputTimers, searchTimers>>
tooltipVars == <<tooltipData, tooltipPosition, isWheeling, wheelTimer, hideTimers, hover>>

NoTouch == [none |-> TRUE]

\* tooltipData = null, the Tooltip component not mounted, and the pointer
\* over neither a card nor the tooltip
NoTooltip == [shown |-> FALSE]
NoPosition == [placed |-> FALSE]
NoHover == [on |-> "none", path |-> <<>>]

\* The values of searchMatchCount: null and the numbers
NullCount == [null |-> TRUE, count |-> 0]
Count(n) == [null |-> FALSE, count |-> n]

\* input: the numbers the handler read from its event or from the DOM;
\* from: the scale and translation it started from; ran: findAndFocusMatch
\* was called; reported: the values passed to onMatchCountChange by the
\* graph view, in order; focused: the paths of the nodes passed to focusNode
Op(name, path) ==
    [op |-> name, path |-> path, asked |-> FALSE, confirmed |-> FALSE,
     visibleItems |-> 0, wasExpanded |-> FALSE, budget |-> 0,
     input |-> <<>>, from |-> <<>>, ran |-> FALSE, reported |-> <<>>,
     focused |-> <<>>, escaped |-> FALSE]

\* Mounting the root GraphNode under a new key: every node is constructed
Mount(text, budgetNow, actionType) ==
    IF showsPlaceholder(text)
    THEN [nodes |-> <<>>, budget |-> budgetNow, log |-> <<>>]
    ELSE Commit(parsedData(text), <<>>,
                [nodes |-> <<>>, budget |-> budgetNow, log |-> <<>>],
                FALSE, actionType, 0)

\* Re-render after a change of node state
Rerender(old, runAll, actionType) ==
    Commit(parsedData(value), old,
           [nodes |-> <<>>, budget |-> budget, log |-> <<>>],
           runAll, actionType, 0)

keyOf(text) == IF JSONparse(text).ok THEN "random" ELSE "error"

\* Mount with a fresh budget depends on the text and on globalAction.type
\* only: the table holds its result for each of them
MountFresh ==
    [text \in AllTexts, actionType \in {"idle", "expand", "collapse"} |->
        Mount(text, InitialBudget, actionType)]

\* Variant of the debounce effect without its cleanup
debounceEffect_noCleanup(timers, v) ==
    Append([i \in DOMAIN timers |-> [timers[i] EXCEPT !.current = FALSE]],
           [value |-> v, current |-> TRUE])

\* A debounce effect of App runs again because its dependency changed to v:
\* the cleanup of its last run clears the timer that run has set, then a new
\* timer is set that will commit v.  current marks the timer of the last run.
debounceEffect(timers, v) ==
    Append(SelectSeq(timers, LAMBDA t : ~t.current), [value |-> v, current |-> TRUE])

InitWith(text) ==
    /\ value = text
    /\ graphKey = keyOf(value)
    /\ globalAction = [type |-> "idle", id |-> 0]
    /\ LET m == MountFresh[value, "idle"]
       IN /\ nodes = m.nodes
          /\ budget = m.budget
          /\ log = m.log
    /\ lastOp = Op("load", <<>>)
    /\ scale = Int2Rat(1)
    /\ position = [x |-> Int2Rat(40), y |-> Int2Rat(40)]
    /\ isPanning = FALSE
    /\ lastTouch = NoTouch
    /\ viewSteps = 0
    /\ searchInput = <<>>
    /\ searchTerm = <<>>
    /\ searchTrigger = 0
    /\ searchMatchCount = NullCount
    /\ matchIndex = 0
    /\ findTimer = FALSE
    /\ tooltipData = NoTooltip
    /\ tooltipPosition = NoPosition
    /\ isWheeling = FALSE
    /\ wheelTimer = FALSE
    /\ hideTimers = <<>>
    /\ hover = NoHover
    /\ jsonInput = text
    /\ inputTimers = debounceEffect(<<>>, text)
    /\ searchTimers = debounceEffect(<<>>, <<>>)
    /\ viewMode = "graph"
    /\ indentation = 4
    /\ toasts = <<>>
    /\ tablePath = <<>>
    /\ copied = FALSE
    /\ copyTimers = 0

Init == \E text \in Texts : InitWith(text)

\* What the search effect of the code editor finds: the editor is ready or
\* not, and the number of matches of the term in its text
EditorAnswers == {[ready |-> FALSE, matches |-> 0],
                  [ready |-> TRUE, matches |-> 0],
                  [ready |-> TRUE, matches |-> 2]}

\* The search effect of the code editor, which runs when the search term or
\* the text changes: searchMatchCount after it
editorSearchEffect(editor, term, count) ==
    IF ~editor.ready THEN count
    ELSE IF term = <<>> THEN NullCount
         ELSE Count(editor.matches)

(***************************************************************************)
(* JsonTableView: the navigation path                                      *)
(***************************************************************************)
\* A segment of the path: a row number or a key
Index(n) == [kind |-> "number", num |-> n, str |-> <<>>]
Key(k) == [kind |-> "string", num |-> 0, str |-> k]

\* The name of the property a segment stands for
propertyName(seg) == IF seg.kind = "number" THEN DigitsOf(seg.num) ELSE seg.str

\* A value that is not a JSON value: a function inherited from the prototype
Function == [type |-> "function"]
\* Of the properties every object and array inherits, the one that a
\* document of the model names
InheritedKeys == {ConstructorKey}

\* The positions of the own properties of curr with that name
OwnPositions(curr, name) ==
    {k \in 1..NumKeys(curr) :
        IF getDataType(curr) = "array" THEN DigitsOf(k - 1) = name
        ELSE curr.members[k].key = name}

\* curr && typeof curr === 'object' && key in curr
hasProperty(curr, seg) ==
    /\ getDataType(curr) \in {"object", "array"}
    /\ \/ OwnPositions(curr, propertyName(seg)) # {}
       \/ propertyName(seg) \in InheritedKeys

\* curr[key]
getProperty(curr, seg) ==
    LET own == OwnPositions(curr, propertyName(seg))
    IN IF own = {} THEN Function
       ELSE IF getDataType(curr) = "array" THEN curr.items[CHOOSE k \in own : TRUE]
            ELSE curr.members[CHOOSE k \in own : TRUE].val

\* The memo rootData: null (no data) for the empty text and for a text that
\* does not parse
NoData == [data |-> FALSE]
Data(v) == [data |-> TRUE, val |-> v]
rootData(text) ==
    IF trim(text) # "" /\ JSONparse(text).ok THEN Data(JSONparse(text).data) ELSE NoData

\* !rootData
IsFalsy(root) ==
    \/ ~root.data
    \/ getDataType(root.val) = "null"
    \/ getDataType(root.val) = "number" /\ root.val.val = 0
    \/ getDataType(root.val) = "boolean" /\ ~root.val.val
    \/ getDataType(root.val) = "string" /\ root.val.val = <<>>

\* The loop of the memo currentData: undefined when a segment is not found
NotFound == [found |-> FALSE]
Found(v) == [found |-> TRUE, val |-> v]
RECURSIVE traversePath(_, _)
traversePath(curr, path) ==
    IF path = <<>> THEN Found(curr)
    ELSE IF hasProperty(curr, Head(path))
         THEN traversePath(getProperty(curr, Head(path)), Tail(path))
         ELSE NotFound

\* The memo currentData: null for a root that is falsy, undefined for a
\* path that is not found
currentData(text, path) ==
    IF IsFalsy(rootData(text)) THEN Found(Null)
    ELSE traversePath(rootData(text).val, path)

\* The effect on [rootData, currentData]: the path after it
tablePathEffect(text, path) ==
    IF ~IsFalsy(rootData(text)) /\ ~currentData(text, path).found THEN <<>> ELSE path

\* setJsonInput(text): the code editor is given the text as its value, and
\* when that is another text its search effect runs
editorValueEffect(text) ==
    \E editor \in EditorAnswers :
        searchMatchCount' = IF text # jsonInput
                            THEN editorSearchEffect(editor, searchTerm, searchMatchCount)
                            ELSE searchMatchCount

\* setDebouncedInput(text) with another text: the graph view gets another
\* prop value, the memo is recomputed, the budget is created anew when
\* graphKey changes, and the root is mounted under the new key; the table
\* view resolves its path again.
setDebouncedInput(text) ==
    /\ value' = text
    /\ graphKey' = keyOf(text)
    /\ LET fresh == IF keyOf(text) = "error" /\ graphKey = "error"
                    THEN budget ELSE InitialBudget
           m == IF fresh = InitialBudget
                THEN MountFresh[text, globalAction.type]
                ELSE Mount(text, fresh, globalAction.type)
       IN /\ nodes' = m.nodes
          /\ budget' = m.budget
          /\ log' = m.log
    /\ UNCHANGED globalAction
    /\ UNCHANGED viewVars
    /\ UNCHANGED <<searchInput, searchTerm, searchTrigger, matchIndex, findTimer>>
    /\ UNCHANGED tooltipVars
    /\ UNCHANGED searchTimers
    /\ tablePath' = tablePathEffect(text, tablePath)

\* A file is loaded: setJsonInput(result); setDebouncedInput(result). The
\* input debounce effect runs again when jsonInput has changed.
Replace(text) ==
    /\ text # value
    /\ setDebouncedInput(text)
    /\ editorValueEffect(text)
    /\ jsonInput' = text
    /\ inputTimers' = IF text # jsonInput THEN debounceEffect(inputTimers, text)
                      ELSE inputTimers
    /\ lastOp' = Op("load", <<>>)
    /\ UNCHANGED <<viewMode, indentation, copied, copyTimers>>

\* Variant of the toggle that starts the pagination over
toggled_resetsPage(state) ==
    [state EXCEPT !.isExpanded = ~state.isExpanded, !.visibleItems = PageSize]

\* setIsExpanded(!isExpanded)
toggled(state) == [state EXCEPT !.isExpanded = ~state.isExpanded]

\* Variant of "show next 50" with a wrong step
loadedMore_shortStep(state) == [state EXCEPT !.visibleItems = @ + 25, !.clicks = @ + 1]

\* setVisibleItems(prev => prev + 50)
loadedMore(state) == [state EXCEPT !.visibleItems = @ + 50, !.clicks = @ + 1]

\* Variant of the threshold test with >= for >
needsConfirm_inclusive(count) == count >= ExpandAllThreshold

\* expandableNodeCount > 5000
needsConfirm(count) == count > ExpandAllThreshold

Clickable(path) == \A i \in 1..Len(path) : path[i] <= MaxClickIndex

\* handleToggle: a click on the card of an expandable node
handleToggle(path) ==
    /\ path \in DOMAIN nodes
    /\ Clickable(path)
    /\ nodes[path].type \in {"object", "array"}
    /\ LET r == Rerender([nodes EXCEPT ![path] = toggled(nodes[path])],
                         FALSE, globalAction.type)
       IN /\ nodes' = r.nodes
          /\ budget' = r.budget
          /\ log' = r.log
    /\ lastOp' = [Op("toggle", path) EXCEPT !.visibleItems = nodes[path].visibleItems,
                                            !.wasExpanded = nodes[path].isExpanded,
                                            !.budget = budget]
    /\ UNCHANGED <<value, graphKey, globalAction>>
    /\ UNCHANGED viewVars
    /\ UNCHANGED searchVars
    /\ UNCHANGED tooltipVars
    /\ UNCHANGED debounceVars
    /\ UNCHANGED appVars

\* hasMore of a node
hasMore(path) ==
    /\ nodes[path].type \in {"object", "array"}
    /\ NumKeys(ValueAt(parsedData(value), path)) > nodes[path].visibleItems

\* handleLoadMore: a click on "Show next 50 items", which is rendered in an
\* expanded node with hasMore
handleLoadMore(path) ==
    /\ path \in DOMAIN nodes
    /\ Clickable(path)
    /\ nodes[path].isExpanded
    /\ hasMore(path)
    /\ LET r == Rerender([nodes EXCEPT ![path] = loadedMore(nodes[path])],
                         FALSE, globalAction.type)
       IN /\ nodes' = r.nodes
          /\ budget' = r.budget
          /\ log' = r.log
    /\ lastOp' = [Op("loadMore", path) EXCEPT !.visibleItems = nodes[path].visibleItems,
                                              !.wasExpanded = nodes[path].isExpanded,
                                              !.budget = budget]
    /\ UNCHANGED <<value, graphKey, globalAction>>
    /\ UNCHANGED viewVars
    /\ UNCHANGED searchVars
    /\ UNCHANGED tooltipVars
    /\ UNCHANGED debounceVars
    /\ UNCHANGED appVars

\* handleExpandAll; confirmed is the answer of window.confirm, which is
\* called only when asked (FALSE when it is not called)
handleExpandAll(confirmed) ==
    /\ ~showsPlaceholder(value)
    /\ globalAction.id < MaxGlobalId
    /\ LET asked == needsConfirm(expandableNodeCount(value))
       IN /\ asked \/ ~confirmed
          /\ lastOp' = [Op("expandAll", <<>>) EXCEPT !.asked = asked,
                                                     !.confirmed = confirmed,
                                                     !.budget = budget]
          /\ IF asked /\ ~confirmed
             THEN UNCHANGED <<nodes, budget, globalAction, log>>
             ELSE LET r == Rerender(nodes, TRUE, "expand")
                  IN /\ globalAction' = [type |-> "expand", id |-> globalAction.id + 1]
                     /\ nodes' = r.nodes
                     /\ budget' = r.budget
                     /\ log' = r.log
    /\ UNCHANGED <<value, graphKey>>
    /\ UNCHANGED viewVars
    /\ UNCHANGED searchVars
    /\ UNCHANGED tooltipVars
    /\ UNCHANGED debounceVars
    /\ UNCHANGED appVars

\* handleCollapseAll
handleCollapseAll ==
    /\ ~showsPlaceholder(value)
    /\ globalAction.id < MaxGlobalId
    /\ globalAction' = [type |-> "collapse", id |-> globalAction.id + 1]
    /\ LET r == Rerender(nodes, TRUE, "collapse")
       IN /\ nodes' = r.nodes
          /\ budget' = r.budget
          /\ log' = r.log
    /\ lastOp' = [Op("collapseAll", <<>>) EXCEPT !.budget = budget]
    /\ UNCHANGED <<value, graphKey>>
    /\ UNCHANGED viewVars
    /\ UNCHANGED searchVars
    /\ UNCHANGED tooltipVars
    /\ UNCHANGED debounceVars
    /\ UNCHANGED appVars

(***************************************************************************)
(* Viewport controller of JsonGraphView.  The rectangles the handlers read *)
(* from the DOM are inputs.                                                *)
(***************************************************************************)
\* containerRef.current.getBoundingClientRect()
ContainerRect == [left |-> 20, top |-> 60, width |-> 800, height |-> 600]
\* contentRef.current.offsetWidth / offsetHeight
ContentSizes == {[w |-> 200, h |-> 100], [w |-> 4800, h |-> 300], [w |-> 400, h |-> 2600]}
\* e.deltaY of a wheel event and the pointer positions (clientX, clientY)
WheelDeltaY == {-2500, -100, 100, 2500}
Points == {[x |-> 20, y |-> 60], [x |-> 420, y |-> 360]}
\* movementX / movementY of a mouse move
Movements == {[x |-> 10, y |-> -5], [x |-> -30, y |-> 20]}
\* getBoundingClientRect() of a node
NodeRects == {[left |-> 100, top |-> 100, width |-> 120, height |-> 36],
              [left |-> 900, top |-> 700, width |-> 60, height |-> 36]}

ViewEnabled == ~showsPlaceholder(value) /\ viewSteps < MaxViewSteps

\* What every viewport handler leaves alone
GestureOpWith(name, input) ==
    /\ lastOp' = [Op(name, <<>>) EXCEPT !.input = input, !.from = <<scale, position>>]
    /\ viewSteps' = viewSteps + 1
    /\ UNCHANGED graphVars
    /\ UNCHANGED searchVars
    /\ UNCHANGED debounceVars
    /\ UNCHANGED appVars

\* A viewport handler that does not touch the tooltip
ViewOpWith(name, input) ==
    /\ GestureOpWith(name, input)
    /\ UNCHANGED tooltipVars

\* setTooltipData(null): the Tooltip component is unmounted; a pointer that
\* was over it is over it no more
\* clearTimeout(wheelTimeoutRef.current) and a new timer of 150 ms: the new
\* timer may fire before or after any pending hide timer of the tooltip
afterWheelTimerSet(timers) ==
    [i \in DOMAIN timers |-> [timers[i] EXCEPT !.afterWheel = FALSE]]

HoverAfterHide == IF hover.on = "tooltip" THEN NoHover ELSE hover
setTooltipDataNull ==
    /\ tooltipData' = NoTooltip
    /\ tooltipPosition' = NoPosition
    /\ hover' = HoverAfterHide

ViewOp(name) == ViewOpWith(name, <<>>)

\* Variant of the pointer down that leaves the tooltip
handleMouseDown_keepsTooltip ==
    /\ ViewEnabled
    /\ hover.on # "tooltip"
    /\ isPanning' = TRUE
    /\ UNCHANGED <<scale, position, lastTouch>>
    /\ UNCHANGED tooltipVars
    /\ GestureOpWith("mouseDown", <<>>)

\* onMouseDown of the container (the tooltip lies outside the container)
handleMouseDown ==
    /\ ViewEnabled
    /\ hover.on # "tooltip"
    /\ isPanning' = TRUE
    /\ setTooltipDataNull
    /\ UNCHANGED <<scale, position, lastTouch>>
    /\ UNCHANGED <<isWheeling, wheelTimer, hideTimers>>
    /\ GestureOpWith("mouseDown", <<>>)

\* Variant of the mouse move that pans without a pointer down
handleMouseMove_always(e) ==
    /\ ViewEnabled
    /\ position' = IF TRUE
                   THEN [x |-> RAdd(position.x, Int2Rat(e.x)),
                         y |-> RAdd(position.y, Int2Rat(e.y))]
                   ELSE position
    /\ UNCHANGED <<scale, isPanning, lastTouch>>
    /\ ViewOpWith("mouseMove", <<e.x, e.y>>)

handleMouseMove(e) ==
    /\ ViewEnabled
    /\ position' = IF isPanning
                   THEN [x |-> RAdd(position.x, Int2Rat(e.x)),
                         y |-> RAdd(position.y, Int2Rat(e.y))]
                   ELSE position
    /\ UNCHANGED <<scale, isPanning, lastTouch>>
    /\ ViewOpWith("mouseMove", <<e.x, e.y>>)

\* onMouseUp and onMouseLeave
handleMouseUp ==
    /\ ViewEnabled
    /\ isPanning' = FALSE
    /\ UNCHANGED <<scale, position, lastTouch>>
    /\ ViewOp("mouseUp")

handleTouchStart(touches, touch) ==
    /\ ViewEnabled
    /\ IF touches = 1
       THEN isPanning' = TRUE /\ lastTouch' = touch /\ setTooltipDataNull
       ELSE UNCHANGED <<isPanning, lastTouch, tooltipData, tooltipPosition, hover>>
    /\ UNCHANGED <<scale, position>>
    /\ UNCHANGED <<isWheeling, wheelTimer, hideTimers>>
    /\ GestureOpWith("touchStart", <<touches, touch.x, touch.y>>)

handleTouchMove(touches, touch) ==
    /\ ViewEnabled
    /\ IF isPanning /\ touches = 1 /\ lastTouch # NoTouch
       THEN /\ position' = [x |-> RAdd(position.x, Int2Rat(touch.x - lastTouch.x)),
                            y |-> RAdd(position.y, Int2Rat(touch.y - lastTouch.y))]
            /\ lastTouch' = touch
       ELSE UNCHANGED <<position, lastTouch>>
    /\ UNCHANGED <<scale, isPanning>>
    /\ ViewOpWith("touchMove", <<touches, touch.x, touch.y>>)

\* onTouchEnd and onTouchCancel
handleTouchEnd ==
    /\ ViewEnabled
    /\ isPanning' = FALSE
    /\ lastTouch' = NoTouch
    /\ UNCHANGED <<scale, position>>
    /\ ViewOp("touchEnd")

\* Variant of the wheel zoom that leaves the translation alone
handleWheel_noAnchor(deltaY, e) ==
    /\ ViewEnabled
    /\ hover.on # "tooltip"
    /\ LET mouseX == Int2Rat(e.x - ContainerRect.left)
           mouseY == Int2Rat(e.y - ContainerRect.top)
           delta == Rat(-deltaY, 1000)
           newScale == RMin(RMax(RAdd(scale, delta), Rat(3, 10)), Int2Rat(3))
           scaleRatio == RDiv(newScale, scale)
       IN /\ scale' = newScale
          /\ position' = position
    /\ isWheeling' = TRUE
    /\ wheelTimer' = TRUE
    /\ setTooltipDataNull
    /\ hideTimers' = afterWheelTimerSet(hideTimers)
    /\ UNCHANGED <<isPanning, lastTouch>>
    /\ GestureOpWith("wheel", <<deltaY, e.x, e.y>>)

handleWheel(deltaY, e) ==
    /\ ViewEnabled
    /\ hover.on # "tooltip"
    /\ LET mouseX == Int2Rat(e.x - ContainerRect.left)
           mouseY == Int2Rat(e.y - ContainerRect.top)
           delta == Rat(-deltaY, 1000)
           newScale == RMin(RMax(RAdd(scale, delta), Rat(3, 10)), Int2Rat(3))
           scaleRatio == RDiv(newScale, scale)
       IN /\ scale' = newScale
          /\ position' = [x |-> RSub(mouseX, RMul(RSub(mouseX, position.x), scaleRatio)),
                          y |-> RSub(mouseY, RMul(RSub(mouseY, position.y), scaleRatio))]
    /\ isWheeling' = TRUE
    /\ wheelTimer' = TRUE
    /\ setTooltipDataNull
    /\ hideTimers' = afterWheelTimerSet(hideTimers)
    /\ UNCHANGED <<isPanning, lastTouch>>
    /\ GestureOpWith("wheel", <<deltaY, e.x, e.y>>)

handleZoomIn ==
    /\ ViewEnabled
    /\ scale' = RMin(RAdd(scale, Rat(1, 10)), Int2Rat(3))
    /\ UNCHANGED <<position, isPanning, lastTouch>>
    /\ ViewOp("zoomIn")

handleZoomOut ==
    /\ ViewEnabled
    /\ scale' = RMax(RSub(scale, Rat(1, 10)), Rat(3, 10))
    /\ UNCHANGED <<position, isPanning, lastTouch>>
    /\ ViewOp("zoomOut")

\* Variant of the reset that keeps the translation
handleReset_keepsPosition ==
    /\ ViewEnabled
    /\ scale' = Int2Rat(1)
    /\ position' = position
    /\ UNCHANGED <<isPanning, lastTouch>>
    /\ ViewOp("reset")

handleReset ==
    /\ ViewEnabled
    /\ scale' = Int2Rat(1)
    /\ position' = [x |-> Int2Rat(40), y |-> Int2Rat(40)]
    /\ UNCHANGED <<isPanning, lastTouch>>
    /\ ViewOp("reset")

\* Variant of fit-to-screen without the cap at 1
handleFitScreen_noCap(content) ==
    /\ ViewEnabled
    /\ LET scaleX == Rat(ContainerRect.width - 80, content.w)
           scaleY == Rat(ContainerRect.height - 80, content.h)
           newScale == RMin(scaleX, scaleY)
       IN /\ scale' = newScale
          /\ position' =
               [x |-> RDiv(RSub(Int2Rat(ContainerRect.width),
                                RMul(Int2Rat(content.w), newScale)), Int2Rat(2)),
                y |-> RDiv(RSub(Int2Rat(ContainerRect.height),
                                RMul(Int2Rat(content.h), newScale)), Int2Rat(2))]
    /\ UNCHANGED <<isPanning, lastTouch>>
    /\ ViewOpWith("fitScreen", <<content.w, content.h>>)

handleFitScreen(content) ==
    /\ ViewEnabled
    /\ LET scaleX == Rat(ContainerRect.width - 80, content.w)
           scaleY == Rat(ContainerRect.height - 80, content.h)
           newScale == RMin(RMin(scaleX, scaleY), Int2Rat(1))
       IN /\ scale' = newScale
          /\ position' =
               [x |-> RDiv(RSub(Int2Rat(ContainerRect.width),
                                RMul(Int2Rat(content.w), newScale)), Int2Rat(2)),
                y |-> RDiv(RSub(Int2Rat(ContainerRect.height),
                                RMul(Int2Rat(content.h), newScale)), Int2Rat(2))]
    /\ UNCHANGED <<isPanning, lastTouch>>
    /\ ViewOpWith("fitScreen", <<content.w, content.h>>)

\* The translation focusNode sets for a node rectangle (rational numbers),
\* from the scale and translation in scaleRef and positionRef
focusNodePosition(nodeRect, currentScale, currentPos) ==
    LET contentScreenLeft == RAdd(Int2Rat(ContainerRect.left), currentPos.x)
        contentScreenTop == RAdd(Int2Rat(ContainerRect.top), currentPos.y)
        nodeCenterX == RAdd(nodeRect.left, RDiv(nodeRect.width, Int2Rat(2)))
        nodeCenterY == RAdd(nodeRect.top, RDiv(nodeRect.height, Int2Rat(2)))
        nodeUnscaledX == RDiv(RSub(nodeCenterX, contentScreenLeft), currentScale)
        nodeUnscaledY == RDiv(RSub(nodeCenterY, contentScreenTop), currentScale)
        targetScale == currentScale
    IN [x |-> RSub(Rat(ContainerRect.width, 2), RMul(nodeUnscaledX, targetScale)),
        y |-> RSub(Rat(ContainerRect.height, 2), RMul(nodeUnscaledY, targetScale))]

\* Variant of focusNode that takes screen distances for content distances
focusNode_noUnscale(nodeRect) ==
    /\ ViewEnabled
    /\ LET contentScreenLeft == RAdd(Int2Rat(ContainerRect.left), position.x)
           contentScreenTop == RAdd(Int2Rat(ContainerRect.top), position.y)
           nodeCenterX == Rat(2 * nodeRect.left + nodeRect.width, 2)
           nodeCenterY == Rat(2 * nodeRect.top + nodeRect.height, 2)
           nodeUnscaledX == RSub(nodeCenterX, contentScreenLeft)
           nodeUnscaledY == RSub(nodeCenterY, contentScreenTop)
           targetScale == scale
       IN /\ scale' = targetScale
          /\ position' = [x |-> RSub(Rat(ContainerRect.width, 2),
                                     RMul(nodeUnscaledX, targetScale)),
                          y |-> RSub(Rat(ContainerRect.height, 2),
                                     RMul(nodeUnscaledY, targetScale))]
    /\ UNCHANGED <<isPanning, lastTouch>>
    /\ ViewOpWith("focus", <<nodeRect.left, nodeRect.top, nodeRect.width, nodeRect.height>>)

\* focusNode(nodeRect), called by a double click on a node
focusNode(nodeRect) ==
    /\ ViewEnabled
    /\ scale' = scale
    /\ position' = focusNodePosition([left |-> Int2Rat(nodeRect.left),
                                      top |-> Int2Rat(nodeRect.top),
                                      width |-> Int2Rat(nodeRect.width),
                                      height |-> Int2Rat(nodeRect.height)],
                                     scale, position)
    /\ UNCHANGED <<isPanning, lastTouch>>
    /\ ViewOpWith("focus", <<nodeRect.left, nodeRect.top, nodeRect.width, nodeRect.height>>)

(***************************************************************************)
(* Search.  The search box sets App's searchTerm at once and its           *)
(* debouncedSearchTerm 300 ms after the last change; the graph view gets   *)
(* the debounced term as its prop searchTerm.  Enter increments            *)
(* searchTrigger.                                                          *)
(***************************************************************************)
\* The queries typed into the search box
Queries == {<<>>, <<"a", "L", "p">>, <<"n", "u", "l", "l">>}

\* The prop name of the node at path: none for the root
NameAt(root, path) ==
    IF path = <<>> THEN <<>>
    ELSE ChildName(ValueAt(root, SubSeq(path, 1, Len(path) - 1)), path[Len(path)])

\* Document order of the rendered nodes: a node comes before its children,
\* and children come in key order
RECURSIVE PathBefore(_, _)
PathBefore(p, q) ==
    IF p = <<>> THEN q # <<>>
    ELSE IF q = <<>> THEN FALSE
         ELSE IF Head(p) # Head(q) THEN Head(p) < Head(q)
              ELSE PathBefore(Tail(p), Tail(q))

RECURSIVE InDocumentOrder(_)
InDocumentOrder(paths) ==
    IF paths = {} THEN <<>>
    ELSE LET first == CHOOSE p \in paths : \A q \in paths \ {p} : PathBefore(p, q)
         IN <<first>> \o InDocumentOrder(paths \ {first})

\* All positions of a value: the root and, below every array and object,
\* the positions of its children
RECURSIVE PathsOf(_)
PathsOf(v) ==
    {<<>>} \cup UNION {{<<k>> \o p : p \in PathsOf(ChildValue(v, k))} :
                         k \in 1..(IF IsExpandable(v) THEN NumKeys(v) ELSE 0)}

\* Variant of the query that finds the matches of the whole document
querySelectorAll_wholeDocument(text, rendered, term) ==
    InDocumentOrder({p \in PathsOf(parsedData(text)) :
                        isMatch(NameAt(parsedData(text), p),
                                ValueAt(parsedData(text), p), term)})

\* containerRef.current.querySelectorAll('.graph-search-match'): the cards
\* of the rendered nodes with isMatch, in document order
querySelectorAll(text, rendered, term) ==
    InDocumentOrder({p \in DOMAIN rendered :
                        isMatch(NameAt(parsedData(text), p),
                                ValueAt(parsedData(text), p), term)})

\* Layout of the cards in the content: one column per depth, and one row per
\* rendered node without rendered children (a parent starts on the row of
\* its first child)
ColumnWidth == 200
RowHeight == 50
CardSize == [w |-> 120, h |-> 36]
RowOf(rendered, path) ==
    Cardinality({q \in DOMAIN rendered :
                    /\ PathBefore(q, path)
                    /\ ~\E k \in 1..PageSize : Append(q, k) \in DOMAIN rendered})

\* target.getBoundingClientRect() of the card of the node at path, under the
\* transform translate(position) scale(scale) of the content
getBoundingClientRect(rendered, path, currentScale, currentPos) ==
    [left |-> RAdd(RAdd(Int2Rat(ContainerRect.left), currentPos.x),
                   RMul(currentScale, Int2Rat(ColumnWidth * Len(path)))),
     top |-> RAdd(RAdd(Int2Rat(ContainerRect.top), currentPos.y),
                  RMul(currentScale, Int2Rat(RowHeight * RowOf(rendered, path)))),
     width |-> RMul(currentScale, Int2Rat(CardSize.w)),
     height |-> RMul(currentScale, Int2Rat(CardSize.h))]

\* Variant of findAndFocusMatch that does not wrap the index around
findAndFocusMatch_noWrap(index, term, cursor) ==
    IF showsPlaceholder(value)
    THEN [reported |-> <<>>, matchIndex |-> cursor, position |-> position,
          focused |-> <<>>]
    ELSE LET matches == querySelectorAll(value, nodes, term)
         IN IF Len(matches) = 0
            THEN [reported |-> <<Count(0)>>, matchIndex |-> cursor,
                  position |-> position, focused |-> <<>>]
            ELSE LET safeIndex == Min(index, Len(matches) - 1)
                     target == matches[safeIndex + 1]
                 IN [reported |-> <<Count(Len(matches))>>, matchIndex |-> safeIndex,
                     position |-> focusNodePosition(
                                      getBoundingClientRect(nodes, target, scale, position),
                                      scale, position),
                     focused |-> <<target>>]

\* findAndFocusMatch(index) for the search term in the DOM and the cursor
\* in matchIndexRef: what it reports, the cursor and the translation after
\* it, and the node it focused.  Behind the error placeholder
\* containerRef.current is null.
findAndFocusMatch(index, term, cursor) ==
    IF showsPlaceholder(value)
    THEN [reported |-> <<>>, matchIndex |-> cursor, position |-> position,
          focused |-> <<>>]
    ELSE LET matches == querySelectorAll(value, nodes, term)
         IN IF Len(matches) = 0
            THEN [reported |-> <<Count(0)>>, matchIndex |-> cursor,
                  position |-> position, focused |-> <<>>]
            ELSE LET safeIndex == index % Len(matches)
                     target == matches[safeIndex + 1]
                 IN [reported |-> <<Count(Len(matches))>>, matchIndex |-> safeIndex,
                     position |-> focusNodePosition(
                                      getBoundingClientRect(nodes, target, scale, position),
                                      scale, position),
                     focused |-> <<target>>]

\* searchMatchCount after the graph view's reports
afterReports(count, reported) ==
    IF reported = <<>> THEN count ELSE reported[Len(reported)]

\* hasMatches as the toolbar gets it: null, or whether the count is positive
hasMatches(count) ==
    IF count.null THEN "null" ELSE IF count.count > 0 THEN "true" ELSE "false"

SearchOp(name, ran, f) ==
    /\ lastOp' = [Op(name, <<>>) EXCEPT !.ran = ran, !.reported = f.reported,
                                        !.focused = f.focused]
    /\ UNCHANGED <<graphVars, scale, isPanning, lastTouch, viewSteps>>
    /\ UNCHANGED tooltipVars
    /\ UNCHANGED <<jsonInput, inputTimers>>
    /\ UNCHANGED appVars

NoFocus(reported) ==
    [reported |-> reported, matchIndex |-> matchIndex, position |-> position,
     focused |-> <<>>]

\* onSearchChange: the text of the search box changes; App forgets the
\* match count
onSearchChange(q) ==
    /\ q # searchInput
    /\ searchInput' = q
    /\ searchMatchCount' = NullCount
    /\ searchTimers' = debounceEffect(searchTimers, q)
    /\ UNCHANGED <<searchTerm, searchTrigger, matchIndex, findTimer, position>>
    /\ SearchOp("searchChange", FALSE, NoFocus(<<>>))

\* Variant of the query-change effect that reports nothing
queryChangeReport_nothing(term) == <<>>

\* What the query-change effect passes to onMatchCountChange at once: null
\* for the empty term, nothing otherwise (the timer reports later)
queryChangeReport(term) == IF term # <<>> THEN <<>> ELSE <<NullCount>>

\* The debounce timer of the search box fires (no earlier than 300 ms after
\* the last firing, so that no 100 ms timer of the graph view is pending):
\* the prop searchTerm changes, and the effects run in order: the search
\* effect of the code editor, the query-change effect of the graph view,
\* its trigger effect.
debounceSearch(editor) ==
    /\ searchTimers # <<>>
    /\ Head(searchTimers).value # searchTerm
    /\ ~findTimer
    /\ searchTimers' = Tail(searchTimers)
    /\ searchTerm' = Head(searchTimers).value
    /\ LET term == Head(searchTimers).value
           cursor == IF term # <<>> THEN 0 ELSE matchIndex
           first == queryChangeReport(term)
           runs == term # <<>> /\ searchTrigger > 0
           f == IF runs THEN findAndFocusMatch(cursor + 1, term, cursor)
                ELSE [NoFocus(<<>>) EXCEPT !.matchIndex = cursor]
           reported == first \o f.reported
       IN /\ findTimer' = (term # <<>>)
          /\ matchIndex' = f.matchIndex
          /\ position' = f.position
          /\ searchMatchCount' =
                afterReports(editorSearchEffect(editor, term, searchMatchCount), reported)
          /\ SearchOp("queryChange", runs, [f EXCEPT !.reported = reported])
    /\ UNCHANGED <<searchInput, searchTrigger>>

\* The debounce timer of the search box fires with the term the graph view
\* already has: setDebouncedSearchTerm leaves the state as it is
debounceSearchSame ==
    /\ searchTimers # <<>>
    /\ Head(searchTimers).value = searchTerm
    /\ searchTimers' = Tail(searchTimers)
    /\ lastOp' = [Op("debounceSearch", <<>>) EXCEPT !.input = <<Head(searchTimers).value>>,
                                                    !.from = <<searchInput>>]
    /\ UNCHANGED <<graphVars, viewVars, searchVars, tooltipVars, jsonInput, inputTimers>>
    /\ UNCHANGED appVars

\* handleInputChange: the text in the editor changes, and the input
\* debounce effect runs again
handleInputChange(text) ==
    /\ text # jsonInput
    /\ jsonInput' = text
    /\ inputTimers' = debounceEffect(inputTimers, text)
    /\ lastOp' = [Op("inputChange", <<>>) EXCEPT !.input = <<text>>,
                                                 !.from = <<jsonInput>>,
                                                 !.ran = inputTimers # <<>>]
    /\ editorValueEffect(text)
    /\ UNCHANGED <<searchInput, searchTerm, searchTrigger, matchIndex, findTimer>>
    /\ UNCHANGED <<graphVars, viewVars, tooltipVars, searchTimers>>
    /\ UNCHANGED appVars

\* The debounce timer of the input fires: setDebouncedInput(jsonInput) with
\* the jsonInput of the render that set the timer
inputTimerFires ==
    /\ inputTimers # <<>>
    /\ inputTimers' = Tail(inputTimers)
    /\ lastOp' = [Op("debounceInput", <<>>) EXCEPT !.input = <<Head(inputTimers).value>>,
                                                   !.from = <<jsonInput>>]
    /\ IF Head(inputTimers).value # value
       THEN setDebouncedInput(Head(inputTimers).value) /\ UNCHANGED searchMatchCount
       ELSE UNCHANGED <<graphVars, viewVars, searchVars, tooltipVars, searchTimers,
                        tablePath>>
    /\ UNCHANGED <<jsonInput, viewMode, indentation, toasts, copied, copyTimers>>

\* Variant of the timer that focuses the match at the cursor
findTimerFires_atCursor ==
    /\ findTimer
    /\ findTimer' = FALSE
    /\ LET f == findAndFocusMatch(matchIndex, searchTerm, matchIndex)
       IN /\ matchIndex' = f.matchIndex
          /\ position' = f.position
          /\ searchMatchCount' = afterReports(searchMatchCount, f.reported)
          /\ SearchOp("findTimer", TRUE, f)
    /\ UNCHANGED <<searchInput, searchTerm, searchTrigger, searchTimers>>

\* The timer of the query-change effect fires: findAndFocusMatch(0)
findTimerFires ==
    /\ findTimer
    /\ findTimer' = FALSE
    /\ LET f == findAndFocusMatch(0, searchTerm, matchIndex)
       IN /\ matchIndex' = f.matchIndex
          /\ position' = f.position
          /\ searchMatchCount' = afterReports(searchMatchCount, f.reported)
          /\ SearchOp("findTimer", TRUE, f)
    /\ UNCHANGED <<searchInput, searchTerm, searchTrigger, searchTimers>>

\* onSearchEnter: Enter in the search box increments searchTrigger, and the
\* trigger effect of the graph view runs
onSearchEnter ==
    /\ searchTrigger < MaxSearchTrigger
    /\ searchTrigger' = searchTrigger + 1
    /\ LET runs == searchTerm # <<>>
           f == IF runs THEN findAndFocusMatch(matchIndex + 1, searchTerm, matchIndex)
                ELSE NoFocus(<<>>)
       IN /\ matchIndex' = f.matchIndex
          /\ position' = f.position
          /\ searchMatchCount' = afterReports(searchMatchCount, f.reported)
          /\ SearchOp("searchEnter", runs, f)
    /\ UNCHANGED <<searchInput, searchTerm, findTimer, searchTimers>>

(***************************************************************************)
(* Tooltip.  A card shows the tooltip of its node when the pointer enters  *)
(* it and asks to hide it 300 ms after the pointer has left; the tooltip   *)
(* itself cancels and asks alike.  All hide timers have the same delay, so *)
(* they fire in the order they were set; a hide timer set while the        *)
(* 150 ms timer of the wheel is pending fires after that one.              *)
(***************************************************************************)
\* The prop path of the node at a position: '$' for the root, and
\* getChildPath of the parent's path for a child
RECURSIVE PathString(_, _)
PathString(root, path) ==
    IF path = <<>> THEN <<"$">>
    ELSE LET parentPos == SubSeq(path, 1, Len(path) - 1)
             parent == ValueAt(root, parentPos)
         IN getChildPath(PathString(root, parentPos),
                         ChildKey(parent, path[Len(path)]), getDataType(parent))

\* nodeRef.current.getBoundingClientRect() of a hovered card, with the
\* window.innerWidth and innerHeight at that moment
Rect(left, top, width, height) == [left |-> left, top |-> top, width |-> width, height |-> height]
Window(w, h) == [w |-> w, h |-> h]
Placements == {[rect |-> Rect(100, 100, 120, 36), win |-> Window(1000, 700)],
               [rect |-> Rect(600, 100, 120, 36), win |-> Window(1000, 700)],
               [rect |-> Rect(100, 520, 120, 36), win |-> Window(1000, 700)],
               [rect |-> Rect(200, 100, 100, 36), win |-> Window(400, 700)],
               [rect |-> Rect(100, 100, 120, 36), win |-> Window(1000, 200)]}
TooltipWidth == 320
TooltipHeight == 200

\* Variant of the placement that has no lower limit for the 'top' it clamps
placeTooltip_noTopLimit(rect, win) ==
    LET right == rect.left + rect.width
        left == IF right + 12 + TooltipWidth > win.w
                THEN Max(10, rect.left - 330) ELSE right + 12
        top == IF rect.top + TooltipHeight > win.h
               THEN win.h - 210 ELSE rect.top
    IN [placed |-> TRUE, top |-> top, left |-> left]

\* The layout effect of the Tooltip component: setPosition({ top, left })
placeTooltip(rect, win) ==
    LET right == rect.left + rect.width
        left == IF right + 12 + TooltipWidth > win.w
                THEN Max(10, rect.left - 330) ELSE right + 12
        top == IF rect.top + TooltipHeight > win.h
               THEN Max(10, win.h - 210) ELSE rect.top
    IN [placed |-> TRUE, top |-> top, left |-> left]

\* clearTimeout(timeoutRef.current): the timer whose id is in timeoutRef, if
\* it is still pending
clearHideTimer(timers) == SelectSeq(timers, LAMBDA t : ~t.current)

\* timeoutRef.current = setTimeout(() => setTooltipData(null), 300)
setHideTimer(timers) ==
    Append([i \in DOMAIN timers |-> [timers[i] EXCEPT !.current = FALSE]],
           [current |-> TRUE, afterWheel |-> wheelTimer])

\* input: the rectangle and the window size of a hover; ran: showTooltip
\* passed its test of the gestures
TooltipOpWith(name, path, input, ran) ==
    /\ lastOp' = [Op(name, path) EXCEPT !.input = input, !.ran = ran]
    /\ UNCHANGED graphVars
    /\ UNCHANGED viewVars
    /\ UNCHANGED searchVars
    /\ UNCHANGED debounceVars
    /\ UNCHANGED appVars

TooltipOp(name, path) ==
    /\ lastOp' = Op(name, path)
    /\ UNCHANGED graphVars
    /\ UNCHANGED viewVars
    /\ UNCHANGED searchVars
    /\ UNCHANGED debounceVars
    /\ UNCHANGED appVars

\* Variant of showTooltip that does not look at the gestures
showTooltip_always(d, win) ==
    /\ hideTimers' = clearHideTimer(hideTimers)
    /\ tooltipData' = d
    /\ tooltipPosition' = placeTooltip(d.rect, win)

\* showTooltip(d) of the graph context; win is the window size the layout
\* effect of the Tooltip reads
showTooltip(d, win) ==
    IF ~isPanning /\ ~isWheeling
    THEN /\ hideTimers' = clearHideTimer(hideTimers)
         /\ tooltipData' = d
         /\ tooltipPosition' = placeTooltip(d.rect, win)
    ELSE UNCHANGED <<hideTimers, tooltipData, tooltipPosition>>

\* hideTooltip() of the graph context
hideTooltip ==
    /\ hideTimers' = setHideTimer(hideTimers)
    /\ UNCHANGED <<tooltipData, tooltipPosition>>

\* handleMouseEnter of the card of the node at path: the pointer comes onto
\* the card
handleMouseEnter(path, rect, win) ==
    /\ path \in DOMAIN nodes
    /\ hover.on = "none"
    /\ showTooltip([shown |-> TRUE, rect |-> rect,
                    path |-> PathString(parsedData(value), path),
                    type |-> nodes[path].type,
                    value |-> ValueAt(parsedData(value), path),
                    name |-> NameAt(parsedData(value), path),
                    node |-> path], win)
    /\ hover' = [on |-> "node", path |-> path]
    /\ UNCHANGED <<isWheeling, wheelTimer>>
    /\ TooltipOpWith("nodeEnter", path, <<rect, win>>, ~isPanning /\ ~isWheeling)

\* handleMouseLeave of a card: the pointer leaves it
handleMouseLeave ==
    /\ hover.on = "node"
    /\ Len(hideTimers) < MaxPendingHides
    /\ hideTooltip
    /\ hover' = NoHover
    /\ UNCHANGED <<isWheeling, wheelTimer>>
    /\ TooltipOp("nodeLeave", hover.path)

\* handleTooltipMouseEnter: the pointer comes onto the tooltip
handleTooltipMouseEnter ==
    /\ tooltipData.shown
    /\ hover.on = "none"
    /\ hideTimers' = clearHideTimer(hideTimers)
    /\ hover' = [on |-> "tooltip", path |-> <<>>]
    /\ UNCHANGED <<tooltipData, tooltipPosition, isWheeling, wheelTimer>>
    /\ TooltipOp("tooltipEnter", <<>>)

\* handleTooltipMouseLeave: the pointer leaves the tooltip
handleTooltipMouseLeave ==
    /\ hover.on = "tooltip"
    /\ Len(hideTimers) < MaxPendingHides
    /\ hideTimers' = setHideTimer(hideTimers)
    /\ hover' = NoHover
    /\ UNCHANGED <<tooltipData, tooltipPosition, isWheeling, wheelTimer>>
    /\ TooltipOp("tooltipLeave", <<>>)

\* The oldest pending hide timer fires: setTooltipData(null)
hideTimeoutFires ==
    /\ hideTimers # <<>>
    /\ Head(hideTimers).afterWheel => ~wheelTimer
    /\ hideTimers' = Tail(hideTimers)
    /\ setTooltipDataNull
    /\ UNCHANGED <<isWheeling, wheelTimer>>
    /\ TooltipOp("hideTimeout", <<>>)

\* The timer of handleWheel fires: isWheelingRef.current = false
wheelTimeoutFires ==
    /\ wheelTimer
    /\ wheelTimer' = FALSE
    /\ isWheeling' = FALSE
    /\ UNCHANGED <<tooltipData, tooltipPosition, hideTimers, hover>>
    /\ TooltipOp("wheelTimeout", <<>>)

(***************************************************************************)
(* App: notifications                                                      *)
(***************************************************************************)
\* The ids that Math.random().toString(36).substring(7) gives; the ids of
\* the notifications on the screen are taken to differ
ToastIds == {1, 2}
ToastTypes == {"success", "error", "info"}
ToastIdsOf(list) == {list[i].id : i \in DOMAIN list}

\* Variant of removeToast that forgets every notification
removeToast_all(list, id) == <<>>

\* removeToast(id): setToasts(prev => prev.filter(t => t.id !== id))
removeToast(list, id) == SelectSeq(list, LAMBDA t : t.id # id)

\* addToast(type, message): setToasts(prev => [...prev, { id, type, message }])
addToast(type) ==
    \E id \in ToastIds \ ToastIdsOf(toasts) :
        toasts' = Append(toasts, [id |-> id, type |-> type])

\* The timer of the Toast component that was mounted first fires, 4000 ms
\* after its mount: onClose(toast.id); the component is unmounted
toastTimeout ==
    /\ toasts # <<>>
    /\ toasts' = removeToast(toasts, Head(toasts).id)
    /\ lastOp' = [Op("toastTimeout", <<>>) EXCEPT !.input = <<Head(toasts).id>>,
                                                  !.from = <<toasts>>]
    /\ UNCHANGED <<graphVars, viewVars, searchVars, tooltipVars, debounceVars>>
    /\ UNCHANGED <<viewMode, indentation, tablePath, copied, copyTimers>>

(***************************************************************************)
(* App: the handlers of the toolbar                                        *)
(***************************************************************************)
\* Variant that leaves the commit to the debounce timer
setJsonAndDebounced_inputOnly(text) ==
    /\ UNCHANGED <<graphVars, viewVars, tooltipVars, searchTimers, tablePath,
                   searchInput, searchTerm, searchTrigger, matchIndex, findTimer>>
    /\ editorValueEffect(text)
    /\ jsonInput' = text
    /\ inputTimers' = IF text # jsonInput THEN debounceEffect(inputTimers, text)
                      ELSE inputTimers

\* setJsonInput(text); setDebouncedInput(text): the input debounce effect
\* runs again when jsonInput has changed
setJsonAndDebounced(text) ==
    /\ IF text # value
       THEN setDebouncedInput(text)
       ELSE UNCHANGED <<graphVars, viewVars, tooltipVars, searchTimers, tablePath,
                        searchInput, searchTerm, searchTrigger, matchIndex, findTimer>>
    /\ editorValueEffect(text)
    /\ jsonInput' = text
    /\ inputTimers' = IF text # jsonInput THEN debounceEffect(inputTimers, text)
                      ELSE inputTimers

\* Nothing of the document changes
documentUnchanged ==
    UNCHANGED <<graphVars, viewVars, searchVars, tooltipVars, debounceVars, tablePath>>

\* What the handler started from
AppOp(name, input) ==
    [Op(name, <<>>) EXCEPT !.input = input, !.from = <<jsonInput, value, toasts>>]

\* JSON.stringify(JSON.parse(jsonInput), null, indent) when jsonInput is
\* not blank and parses
CanFormat == trim(jsonInput) # "" /\ JSONparse(jsonInput).ok
formatted(indent) == JSONstringify(JSONparse(jsonInput).data, indent)

\* handleFormat: Prettify (nothing happens for a blank text)
handleFormat ==
    /\ trim(jsonInput) # ""
    /\ IF JSONparse(jsonInput).ok
       THEN setJsonAndDebounced(formatted(indentation)) /\ addToast("success")
       ELSE documentUnchanged /\ addToast("error")
    /\ lastOp' = [AppOp("format", <<>>) EXCEPT !.ran = JSONparse(jsonInput).ok]
    /\ UNCHANGED <<viewMode, indentation, copied, copyTimers>>

\* handleMinify
handleMinify ==
    /\ trim(jsonInput) # ""
    /\ IF JSONparse(jsonInput).ok
       THEN setJsonAndDebounced(formatted(0)) /\ addToast("success")
       ELSE documentUnchanged /\ addToast("error")
    /\ lastOp' = [AppOp("minify", <<>>) EXCEPT !.ran = JSONparse(jsonInput).ok]
    /\ UNCHANGED <<viewMode, indentation, copied, copyTimers>>

\* handleIndentChange(newIndent)
handleIndentChange(newIndent) ==
    /\ newIndent # indentation
    /\ indentation' = newIndent
    /\ IF CanFormat
       THEN setJsonAndDebounced(formatted(newIndent))
       ELSE documentUnchanged
    /\ lastOp' = [AppOp("indent", <<newIndent>>) EXCEPT !.ran = CanFormat]
    /\ UNCHANGED <<viewMode, toasts, copied, copyTimers>>

\* handleClear; confirmed: the answer to window.confirm, asked for a text
\* of more than 50 characters
ClearAsks == Len(jsonInput) > 50
handleClear(confirmed) ==
    /\ jsonInput # ""
    /\ (~ClearAsks) => confirmed
    /\ IF confirmed
       THEN setJsonAndDebounced("") /\ addToast("info")
       ELSE documentUnchanged /\ UNCHANGED toasts
    /\ lastOp' = [AppOp("clear", <<>>) EXCEPT !.asked = ClearAsks,
                                             !.confirmed = confirmed,
                                             !.ran = confirmed]
    /\ UNCHANGED <<viewMode, indentation, copied, copyTimers>>

\* reader.onload of handleUpload, for a file of type JSON that is not empty
readerOnload(text) ==
    /\ text # ""
    /\ setJsonAndDebounced(text)
    /\ addToast("success")
    /\ lastOp' = [AppOp("upload", <<text>>) EXCEPT !.ran = TRUE]
    /\ UNCHANGED <<viewMode, indentation, copied, copyTimers>>

(***************************************************************************)
(* The clipboard                                                           *)
(***************************************************************************)
MaxCopyTimers == 2

\* handleCopy of App; written: navigator.clipboard.writeText resolved
handleCopy(written) ==
    /\ jsonInput # ""
    /\ addToast(IF written THEN "success" ELSE "error")
    /\ lastOp' = [AppOp("copy", <<written>>) EXCEPT !.ran = written]
    /\ documentUnchanged
    /\ UNCHANGED <<viewMode, indentation, copied, copyTimers>>

\* handleCopyPath of the Tooltip: the promise of writeText is neither
\* awaited nor caught; escaped: its rejection is left unhandled
handleCopyPath(written) ==
    /\ copyTimers < MaxCopyTimers
    /\ copied' = TRUE
    /\ copyTimers' = copyTimers + 1
    /\ lastOp' = [AppOp("copyPath", <<written>>) EXCEPT !.ran = written,
                                                       !.escaped = ~written]
    /\ documentUnchanged
    /\ UNCHANGED <<viewMode, indentation, toasts>>

\* A timer of handleCopyPath fires after 2000 ms: setCopied(false)
copiedTimeout ==
    /\ copyTimers > 0
    /\ copyTimers' = copyTimers - 1
    /\ copied' = FALSE
    /\ lastOp' = Op("copiedTimeout", <<>>)
    /\ documentUnchanged
    /\ UNCHANGED <<viewMode, indentation, toasts>>

\* Editing: typing, the toolbar and file loads, with the timers
TypedTexts == {" 7", "bad", JSONstringify(Sevens, 0)}
UploadTexts == {"7", "bad", JSONstringify(Sevens, 2)}
NextEdit ==
    \/ \E text \in TypedTexts : handleInputChange(text)
    \/ inputTimerFires
    \/ handleFormat
    \/ handleMinify
    \/ \E newIndent \in Indents : handleIndentChange(newIndent)
    \/ \E confirmed \in BOOLEAN : handleClear(confirmed)
    \/ \E text \in UploadTexts : readerOnload(text)
    \/ toastTimeout

InitEdit == InitWith(JSONstringify(Sevens, 4))

SpecEdit == InitEdit /\ [][NextEdit]_vars

\* Copying the document and the path of a node, with the timers
NextClipboard ==
    \/ \E written \in BOOLEAN : handleCopy(written)
    \/ \E written \in BOOLEAN : handleCopyPath(written)
    \/ copiedTimeout
    \/ toastTimeout
    \/ handleFormat
    \/ \E confirmed \in BOOLEAN : handleClear(confirmed)

InitClipboard == InitWith(JSONstringify(Sevens, 4))

SpecClipboard == InitClipboard /\ [][NextClipboard]_vars

\* The timers of the browser fire when they are due
SpecClipboardLive == SpecClipboard /\ WF_vars(toastTimeout) /\ WF_vars(copiedTimeout)

(***************************************************************************)
(* App: the view switch                                                    *)
(***************************************************************************)
ViewModes == {"code", "graph", "table"}

\* setViewMode(mode): the three views stay mounted, the two others hidden
\* by their style; the effect on [viewMode] forgets the match count
setViewMode(mode) ==
    /\ mode # viewMode
    /\ viewMode' = mode
    /\ searchMatchCount' = NullCount
    /\ lastOp' = [Op("viewMode", <<>>) EXCEPT !.from = <<viewMode>>]
    /\ UNCHANGED <<graphVars, viewVars, tooltipVars, debounceVars>>
    /\ UNCHANGED <<searchInput, searchTerm, searchTrigger, matchIndex, findTimer>>
    /\ UNCHANGED <<indentation, toasts, tablePath, copied, copyTimers>>

\* Searching in document S while the view is switched
NextSearchView ==
    \/ \E q \in Queries : onSearchChange(q)
    \/ \E editor \in EditorAnswers : debounceSearch(editor)
    \/ findTimerFires
    \/ onSearchEnter
    \/ \E mode \in ViewModes : setViewMode(mode)

InitSearchView == InitWith("S")

SpecSearchView == InitSearchView /\ [][NextSearchView]_vars

(***************************************************************************)
(* JsonTableView: navigation                                               *)
(***************************************************************************)
\* What a handler of the table view leaves alone
TableOp(name) ==
    /\ lastOp' = [Op(name, <<>>) EXCEPT !.from = <<tablePath>>]
    /\ UNCHANGED <<graphVars, viewVars, searchVars, tooltipVars, debounceVars>>
    /\ UNCHANGED <<viewMode, indentation, toasts, copied, copyTimers>>

\* The segments that the cells of the table pass to handleNavigate: the
\* cells with an object or an array get a button; in the table of an array
\* the cell of row i and column col has [i, col], in the table of an object
\* the cell of key has [key]
CellSegments(data) ==
    IF getDataType(data) = "array"
    THEN UNION {IF getDataType(data.items[i]) = "object"
                THEN {<<Index(i - 1), Key(data.items[i].members[k].key)>> :
                        k \in {j \in DOMAIN data.items[i].members :
                                 IsExpandable(data.items[i].members[j].val)}}
                ELSE {} : i \in DOMAIN data.items}
    ELSE IF getDataType(data) = "object"
         THEN {<<Key(data.members[k].key)>> :
                 k \in {j \in DOMAIN data.members : IsExpandable(data.members[j].val)}}
         ELSE {}

\* handleNavigate(segments): a click on the button of a cell
handleNavigate ==
    /\ currentData(value, tablePath).found
    /\ \E segments \in CellSegments(currentData(value, tablePath).val) :
          tablePath' = tablePathEffect(value, tablePath \o segments)
    /\ TableOp("navigate")

\* handleBreadcrumbClick(index): path.slice(0, index + 1)
handleBreadcrumbClick(index) ==
    /\ index \in 0..(Len(tablePath) - 1)
    /\ tablePath' = tablePathEffect(value, SubSeq(tablePath, 1, index + 1))
    /\ TableOp("breadcrumb")

\* handleReset of the table view: setPath([])
handleTableReset ==
    /\ tablePath # <<>>
    /\ tablePath' = <<>>
    /\ TableOp("tableReset")

\* Navigating in the table view while the document is replaced
MaxPathLen == 3
NextTable ==
    \/ handleNavigate
    \/ \E index \in 0..(MaxPathLen - 1) : handleBreadcrumbClick(index)
    \/ handleTableReset
    \/ \E text \in TableTexts : Replace(text) /\ UNCHANGED toasts

InitTable == InitWith("T")

SpecTable == InitTable /\ [][NextTable]_vars

Next ==
    \/ \E text \in Texts : Replace(text) /\ UNCHANGED toasts
    \/ \E path \in DOMAIN nodes : handleToggle(path)
    \/ \E path \in DOMAIN nodes : handleLoadMore(path)
    \/ \E confirmed \in BOOLEAN : handleExpandAll(confirmed)
    \/ handleCollapseAll

Spec == Init /\ [][Next]_vars

NextView ==
    \/ handleMouseDown
    \/ \E e \in Movements : handleMouseMove(e)
    \/ handleMouseUp
    \/ \E touches \in 1..2, touch \in Points : handleTouchStart(touches, touch)
    \/ \E touches \in 1..2, touch \in Points : handleTouchMove(touches, touch)
    \/ handleTouchEnd
    \/ \E deltaY \in WheelDeltaY, e \in Points : handleWheel(deltaY, e)
    \/ handleZoomIn
    \/ handleZoomOut
    \/ handleReset
    \/ \E content \in ContentSizes : handleFitScreen(content)
    \/ \E nodeRect \in NodeRects : focusNode(nodeRect)

InitView == Init /\ value = "W"

SpecView == InitView /\ [][NextView]_vars

\* The viewport operations together with replacing the document
ViewTexts == {"W", "7"}

NextViewLoad ==
    \/ \E text \in ViewTexts : Replace(text) /\ UNCHANGED toasts
    \/ NextView

SpecViewLoad == InitView /\ [][NextViewLoad]_vars

\* Searching in document S, which is edited into an invalid text and back,
\* while the nodes below the root are collapsed and expanded
NextSearch ==
    \/ \E q \in Queries : onSearchChange(q)
    \/ \E editor \in EditorAnswers : debounceSearch(editor)
    \/ findTimerFires
    \/ onSearchEnter
    \/ \E text \in SearchTexts : Replace(text) /\ UNCHANGED toasts
    \/ \E path \in DOMAIN nodes \ {<<>>} : handleToggle(path)

InitSearch == InitWith("S")

SpecSearch == InitSearch /\ [][NextSearch]_vars

\* Hovering the cards of document K and the tooltip, in windows of several
\* sizes
NextTooltipPlace ==
    \/ \E path \in DOMAIN nodes, at \in Placements :
          handleMouseEnter(path, at.rect, at.win)
    \/ handleMouseLeave
    \/ handleTooltipMouseEnter
    \/ handleTooltipMouseLeave
    \/ hideTimeoutFires

InitTooltip == InitWith("K")

SpecTooltipPlace == InitTooltip /\ [][NextTooltipPlace]_vars

\* Hovering two cards and the tooltip between pan and wheel gestures
HoverPaths == {<<>>, <<1>>}
HoverRect == Rect(100, 100, 120, 36)
HoverWindow == Window(1000, 700)

NextTooltip ==
    \/ \E path \in HoverPaths : handleMouseEnter(path, HoverRect, HoverWindow)
    \/ handleMouseLeave
    \/ handleTooltipMouseEnter
    \/ handleTooltipMouseLeave
    \/ hideTimeoutFires
    \/ wheelTimeoutFires
    \/ handleMouseDown
    \/ handleMouseUp
    \/ \E touch \in Points : handleTouchStart(1, touch)
    \/ handleTouchEnd
    \/ \E e \in Points : handleWheel(100, e)

SpecTooltip == InitTooltip /\ [][NextTooltip]_vars

\* The timers of the browser fire when they are due
SpecTooltipLive ==
    SpecTooltip /\ WF_vars(hideTimeoutFires) /\ WF_vars(wheelTimeoutFires)

\* Typing in the editor and in the search box, with the timers of the two
\* debounce effects
DebounceTexts == {"7", "null", "bad"}

NextDebounce ==
    \/ \E text \in DebounceTexts : handleInputChange(text)
    \/ inputTimerFires
    \/ \E text \in DebounceTexts : Replace(text) /\ UNCHANGED toasts
    \/ \E q \in Queries : onSearchChange(q)
    \/ \E editor \in EditorAnswers : debounceSearch(editor)
    \/ debounceSearchSame
    \/ findTimerFires

InitDebounce == InitWith("7")

SpecDebounce == InitDebounce /\ [][NextDebounce]_vars

\* The timers of the browser fire when they are due
SpecDebounceLive ==
    /\ SpecDebounce
    /\ WF_vars(inputTimerFires)
    /\ WF_vars(\E editor \in EditorAnswers : debounceSearch(editor))
    /\ WF_vars(debounceSearchSame)
    /\ WF_vars(findTimerFires)

\* Searching in the paginated document P while its array is collapsed,
\* expanded and paged
NextSearchPage ==
    \/ \E q \in Queries : onSearchChange(q)
    \/ \E editor \in EditorAnswers : debounceSearch(editor)
    \/ findTimerFires
    \/ onSearchEnter
    \/ \E path \in DOMAIN nodes \ {<<>>} : handleToggle(path)
    \/ \E path \in DOMAIN nodes : handleLoadMore(path)

InitSearchPage == InitWith("P")

SpecSearchPage == InitSearchPage /\ [][NextSearchPage]_vars

TypeOK ==
    /\ value \in AllTexts
    /\ budget \in 0..InitialBudget
    /\ scale.d > 0
    /\ searchInput \in Queries
    /\ searchTerm \in Queries
    /\ searchTrigger \in 0..MaxSearchTrigger
    /\ matchIndex \in Nat
    /\ findTimer \in BOOLEAN
    /\ searchMatchCount.null \in BOOLEAN
    /\ hasMatches(searchMatchCount) \in {"null", "true", "false"}
    /\ tooltipData.shown \in BOOLEAN
    /\ tooltipData.shown <=> tooltipPosition.placed
    /\ isWheeling \in BOOLEAN
    /\ wheelTimer \in BOOLEAN
    /\ Len(hideTimers) <= MaxPendingHides
    /\ Cardinality({i \in DOMAIN hideTimers : hideTimers[i].current}) <= 1
    /\ hover.on \in {"none", "node", "tooltip"}
    /\ hover.on = "tooltip" => tooltipData.shown
    /\ jsonInput \in AllTexts
    /\ \A i \in DOMAIN inputTimers : inputTimers[i].value \in AllTexts
    /\ Len(inputTimers) <= 1
    /\ Len(searchTimers) <= 1
    /\ viewMode \in ViewModes
    /\ \A i \in DOMAIN toasts : toasts[i].id \in ToastIds /\ toasts[i].type \in ToastTypes
    /\ Cardinality(ToastIdsOf(toasts)) = Len(toasts)
    /\ copyTimers \in 0..MaxCopyTimers
    /\ indentation \in Indents
    /\ tablePath \in Seq([kind : {"number", "string"}, num : Nat, str : Seq(STRING)])
    /\ Len(tablePath) <= MaxPathLen
    /\ copied \in BOOLEAN
    /\ copyTimers \in Nat

(***************************************************************************)
(* Properties                                                              *)
(***************************************************************************)
IsContainer(state) == state.type \in {"object", "array"}
LogEntries == {log[i] : i \in DOMAIN log}
SeqToSet(seq) == {seq[i] : i \in DOMAIN seq}
First(seq, n) == SubSeq(seq, 1, Min(n, Len(seq)))

\* The position, in Object.keys order, of the member that the text lists
\* as the i-th one
PositionOf(json, i) ==
    IF getDataType(json) = "array" THEN i
    ELSE CHOOSE k \in 1..NumKeys(json) : KeyOrder(json)[k] = i

\* The arrays and objects below json, in the order of the text
\* (depth-first, members in insertion order)
RECURSIVE TextOrder(_, _)
RECURSIVE TextOrderRange(_, _, _, _)
TextOrder(json, path) ==
    IF IsExpandable(json) THEN TextOrderRange(json, path, 1, NumKeys(json)) ELSE <<>>
TextOrderRange(json, path, lo, hi) ==
    IF lo > hi THEN <<>>
    ELSE IF lo = hi
         THEN LET k == PositionOf(json, lo)
                  child == ChildValue(json, k)
              IN IF IsExpandable(child)
                 THEN <<Append(path, k)>> \o TextOrder(child, Append(path, k))
                 ELSE <<>>
         ELSE TextOrderRange(json, path, lo, (lo + hi) \div 2)
              \o TextOrderRange(json, path, (lo + hi) \div 2 + 1, hi)

\* The arrays and objects below json that are, like each of their
\* ancestors, among the first PageSize keys of their parent, depth-first in
\* Object.keys order
RECURSIVE PageOrder(_, _)
RECURSIVE PageOrderRange(_, _, _, _)
PageOrder(json, path) ==
    IF IsExpandable(json)
    THEN PageOrderRange(json, path, 1, Min(NumKeys(json), PageSize))
    ELSE <<>>
PageOrderRange(json, path, lo, hi) ==
    IF lo > hi THEN <<>>
    ELSE IF lo = hi
         THEN LET child == ChildValue(json, lo)
              IN IF IsExpandable(child)
                 THEN <<Append(path, lo)>> \o PageOrder(child, Append(path, lo))
                 ELSE <<>>
         ELSE PageOrderRange(json, path, lo, (lo + hi) \div 2)
              \o PageOrderRange(json, path, (lo + hi) \div 2 + 1, hi)

\* The nodes below the root whose expanded flag was initialised to true by
\* the first render pass of the last load
StartExpanded ==
    {e.path : e \in {x \in LogEntries : x.pass = 0 /\ x.depth # 0 /\ x.isExpanded}}
RootStartsExpanded ==
    \E e \in LogEntries : e.pass = 0 /\ e.depth = 0 /\ e.isExpanded

Loaded == lastOp.op = "load" /\ ~showsPlaceholder(value)

\* C1 as claimed: on the initial render of a loaded document, the nodes
\* that start expanded are the root and exactly the first min(50, N) of the
\* N arrays and objects below the root, in document order.
C1_FirstOfDocument ==
    Loaded =>
        /\ RootStartsExpanded
        /\ StartExpanded = SeqToSet(First(TextOrder(parsedData(value), <<>>), InitialBudget))

\* C1 as amended: on the initial render of a loaded document, the nodes
\* that start expanded (by their initializer, in the first render pass) are
\* the root and exactly the first min(50, N') of the N' arrays and objects
\* below the root that lie, like each of their ancestors, among the first 50
\* keys of their parent, depth-first in Object.keys order (integer-like
\* keys ascending first, then the other keys in insertion order).
C1_FirstOfPages ==
    Loaded =>
        /\ RootStartsExpanded
        /\ StartExpanded = SeqToSet(First(PageOrder(parsedData(value), <<>>), InitialBudget))

\* C1 witness: a document with more than 50 such nodes was loaded, and 50
\* of them start expanded.
C1_Witness ==
    /\ Loaded
    /\ Len(PageOrder(parsedData(value), <<>>)) > InitialBudget
    /\ Cardinality(StartExpanded) = InitialBudget

\* C2 as claimed: the root's expanded flag is true in every reachable state.
C2_RootAlwaysExpanded ==
    <<>> \in DOMAIN nodes => nodes[<<>>].isExpanded

\* C3: the budget is never negative; constructing a node below the root
\* that is auto-expanded takes exactly 1 from it; constructing the root, a
\* scalar or a container that starts collapsed leaves it as it was, and a
\* container below the root starts collapsed only when the budget is 0; the
\* budget changes in no other way.
C3_BudgetSteps ==
    /\ budget >= 0
    /\ \A i \in DOMAIN log :
         LET e == log[i] IN
         /\ e.before >= 0 /\ e.after >= 0
         /\ (e.depth # 0 /\ e.isExpandable /\ e.isExpanded) => e.after = e.before - 1
         /\ (e.depth = 0 \/ ~e.isExpandable \/ ~e.isExpanded) => e.after = e.before
         /\ (e.depth # 0 /\ e.isExpandable /\ ~e.isExpanded) => e.before = 0
         /\ (i < Len(log) => log[i + 1].before = e.after)
         /\ (i = Len(log) => budget = e.after)

\* C3 witness: one operation constructed the root, a scalar, an
\* auto-expanded container and a container that starts collapsed.
C3_Witness ==
    /\ \E e \in LogEntries : e.depth = 0
    /\ \E e \in LogEntries : ~e.isExpandable /\ e.depth # 0
    /\ \E e \in LogEntries : e.depth # 0 /\ e.isExpandable /\ e.isExpanded /\ e.after = e.before - 1
    /\ \E e \in LogEntries : e.depth # 0 /\ e.isExpandable /\ ~e.isExpanded

\* C4 as claimed: after a document replace the nodes, their expanded flags
\* and their pagination are those of a fresh load of the document.
C4_ReplaceIsFreshLoad ==
    lastOp.op = "load" => nodes = Mount(value, InitialBudget, "idle").nodes

\* The children of the node at path that are rendered (mounted)
RenderedChildren(path) ==
    {k \in 1..NumKeys(ValueAt(parsedData(value), path)) : Append(path, k) \in DOMAIN nodes}

\* C5: an expanded node with K children whose "show next 50" was clicked n
\* times renders exactly its first min(K, 50 * (n + 1)) children.
C5_Pagination ==
    \A path \in DOMAIN nodes :
        (IsContainer(nodes[path]) /\ nodes[path].isExpanded) =>
            RenderedChildren(path) =
                1..Min(NumKeys(ValueAt(parsedData(value), path)),
                       PageSize * (nodes[path].clicks + 1))

\* C5 witness: a node with more than 100 and fewer than 150 children
\* renders all of them after two clicks.
C5_Witness ==
    \E path \in DOMAIN nodes :
        /\ nodes[path].isExpanded
        /\ nodes[path].clicks = 2
        /\ Cardinality(RenderedChildren(path)) > 2 * PageSize
        /\ Cardinality(RenderedChildren(path)) < 3 * PageSize

\* C6 as claimed: a "show next 50" click adds 50 to the visibleItems of the
\* clicked node and changes nothing else: no other existing node, not the
\* budget, not the viewport.
C6_LoadMoreFrame ==
    [][lastOp'.op = "loadMore" =>
          /\ nodes'[lastOp'.path].visibleItems = nodes[lastOp'.path].visibleItems + 50
          /\ nodes'[lastOp'.path].isExpanded = nodes[lastOp'.path].isExpanded
          /\ \A q \in DOMAIN nodes \ {lastOp'.path} :
                q \in DOMAIN nodes' /\ nodes'[q] = nodes[q]
          /\ budget' = budget
          /\ UNCHANGED <<scale, position, globalAction, value>>]_vars

\* C7: a click that collapses a node and the click that expands it again
\* leave its visibleItems at the value it had before the collapse; no click
\* on a node's card changes its visibleItems.
C7_ToggleKeepsPage ==
    [][lastOp'.op = "toggle" =>
          /\ nodes'[lastOp'.path].visibleItems = nodes[lastOp'.path].visibleItems
          /\ (lastOp.op = "toggle" /\ lastOp.path = lastOp'.path
              /\ lastOp.wasExpanded /\ ~lastOp'.wasExpanded)
             => nodes'[lastOp'.path].visibleItems = lastOp.visibleItems]_vars

\* C7 witness: a node with earlier "show next 50" clicks was collapsed by a
\* click and expanded again by the next.
C7_Witness ==
    /\ lastOp.op = "toggle"
    /\ ~lastOp.wasExpanded
    /\ lastOp.visibleItems > PageSize
    /\ nodes[lastOp.path].isExpanded
    /\ nodes[lastOp.path].clicks > 0
    /\ nodes[lastOp.path].visibleItems = PageSize * (nodes[lastOp.path].clicks + 1)

ExpandAllDone(op) == op.op = "expandAll" /\ (op.asked => op.confirmed)

ViewState == <<value, nodes, budget, graphKey, globalAction, scale, position>>

\* C9: 'expand all' asks for confirmation exactly when the document has
\* more than 5000 arrays and objects (the document with exactly 5000 is not
\* asked about, the one with 5001 is), and a declined confirmation changes
\* nothing.
C9_ConfirmExpandAll ==
    [][lastOp'.op = "expandAll" =>
          /\ lastOp'.asked <=> expandableNodeCount(value) > 5000
          /\ value = "Big5000" => ~lastOp'.asked
          /\ value = "Big5001" => lastOp'.asked
          /\ (lastOp'.asked /\ ~lastOp'.confirmed) => ViewState' = ViewState
          /\ ~lastOp'.asked => globalAction'.type = "expand"]_vars

\* C9 witness: the confirmation was asked for and declined.
C9_Witness ==
    /\ lastOp.op = "expandAll"
    /\ lastOp.asked
    /\ ~lastOp.confirmed
    /\ expandableNodeCount(value) = ExpandAllThreshold + 1

\* C10 as claimed: the scale is within [0.3, 3.0] in every reachable state.
C10_ScaleInRange ==
    RLeq(Rat(3, 10), scale) /\ RLeq(scale, Int2Rat(3))

(***************************************************************************)
(* Viewport properties                                                     *)
(***************************************************************************)
DefaultScale == Int2Rat(1)
DefaultPosition == [x |-> Int2Rat(40), y |-> Int2Rat(40)]
clamp(s) == RMin(RMax(s, Rat(3, 10)), Int2Rat(3))
PanOps == {"mouseDown", "mouseMove", "mouseUp", "touchStart", "touchMove", "touchEnd"}

\* C11: a wheel zoom at the container-relative point F changes the scale s
\* to s' = clamp(s + delta, 0.3, 3.0) and the translation t to
\* t' = F - (F - t) * (s'/s), and the content point under F is the same
\* before and after: (F - t)/s = (F - t')/s'.
C11_ZoomFocalPoint ==
    [][lastOp'.op = "wheel" =>
          LET Fx == Int2Rat(lastOp'.input[2] - ContainerRect.left)
              Fy == Int2Rat(lastOp'.input[3] - ContainerRect.top)
              delta == Rat(-lastOp'.input[1], 1000)
              s1 == clamp(RAdd(scale, delta))
          IN /\ scale' = s1
             /\ position'.x = RSub(Fx, RMul(RSub(Fx, position.x), RDiv(s1, scale)))
             /\ position'.y = RSub(Fy, RMul(RSub(Fy, position.y), RDiv(s1, scale)))
             /\ RDiv(RSub(Fx, position.x), scale) = RDiv(RSub(Fx, position'.x), scale')
             /\ RDiv(RSub(Fy, position.y), scale) = RDiv(RSub(Fy, position'.y), scale')]_vars

\* C11 witness: a wheel zoom away from the content origin has changed both
\* the scale and the translation.
C11_Witness ==
    /\ lastOp.op = "wheel"
    /\ lastOp.input = <<-100, 420, 360>>
    /\ scale = Rat(11, 10)
    /\ position # lastOp.from[2]

C13_FitScreen ==
    [][lastOp'.op = "fitScreen" =>
          LET w == Int2Rat(lastOp'.input[1])
              h == Int2Rat(lastOp'.input[2])
              W == Int2Rat(ContainerRect.width)
              H == Int2Rat(ContainerRect.height)
              sx == RDiv(RSub(W, Int2Rat(80)), w)
              sy == RDiv(RSub(H, Int2Rat(80)), h)
              s1 == RMin(RMin(sx, sy), Int2Rat(1))
          IN /\ scale' = s1
             /\ RLeq(scale', Int2Rat(1))
             /\ position'.x = RDiv(RSub(W, RMul(w, s1)), Int2Rat(2))
             /\ position'.y = RDiv(RSub(H, RMul(h, s1)), Int2Rat(2))
             /\ position'.x = RSub(W, RAdd(position'.x, RMul(w, scale')))
             /\ position'.y = RSub(H, RAdd(position'.y, RMul(h, scale')))]_vars

\* C13 witness: content smaller than the container was fitted, and the
\* scale is 1 although the axis scales are above it.
C13_Witness ==
    /\ lastOp.op = "fitScreen"
    /\ lastOp.input = <<200, 100>>
    /\ scale = Int2Rat(1)
    /\ position = [x |-> Int2Rat(300), y |-> Int2Rat(250)]

\* C14: focusing a node rectangle leaves the scale unchanged and adds
\* (container centre - rectangle centre) to the translation, so that the
\* rectangle, moved with the content, has its centre at the centre of the
\* container.
C14_FocusCentres ==
    [][lastOp'.op = "focus" =>
          LET in == lastOp'.input
              rectX == Rat(2 * in[1] + in[3], 2)
              rectY == Rat(2 * in[2] + in[4], 2)
              centreX == Rat(2 * ContainerRect.left + ContainerRect.width, 2)
              centreY == Rat(2 * ContainerRect.top + ContainerRect.height, 2)
          IN /\ scale' = scale
             /\ position'.x = RAdd(position.x, RSub(centreX, rectX))
             /\ position'.y = RAdd(position.y, RSub(centreY, rectY))
             /\ RAdd(rectX, RSub(position'.x, position.x)) = centreX
             /\ RAdd(rectY, RSub(position'.y, position.y)) = centreY]_vars

\* C14 witness: a rectangle was focused at a scale other than 1.
C14_Witness ==
    /\ lastOp.op = "focus"
    /\ scale # Int2Rat(1)
    /\ position # lastOp.from[2]

\* C15: reset sets the scale to 1 and the translation to (40, 40), from
\* any viewport state, and changes nothing of the graph (expansion,
\* pagination, budget, bulk action) and nothing of the search state or the
\* tooltip.
C15_Reset ==
    [][lastOp'.op = "reset" =>
          /\ scale' = DefaultScale
          /\ position' = DefaultPosition
          /\ UNCHANGED graphVars
          /\ UNCHANGED searchVars
          /\ UNCHANGED tooltipVars]_vars

\* C15 witness: reset has acted on a viewport whose scale and translation
\* both differed from the defaults.
C15_Witness ==
    /\ lastOp.op = "reset"
    /\ lastOp.from[1] # DefaultScale
    /\ lastOp.from[2] # DefaultPosition
    /\ scale = DefaultScale
    /\ position = DefaultPosition

\* C16 as claimed: replacing the document puts the viewport back to the
\* scale 1 and the translation (40, 40).
C16_ReplaceResetsViewport ==
    [][(lastOp'.op = "load" /\ value' # value) =>
          scale' = DefaultScale /\ position' = DefaultPosition]_vars

\* What the code does on a replace: scale and translation are kept.
C16_ReplaceKeepsViewport ==
    [][lastOp'.op = "load" => scale' = scale /\ position' = position]_vars

(***************************************************************************)
(* Search properties                                                       *)
(***************************************************************************)
\* isMatch as the claim defines it
isMatchClaimed(name, v, query) ==
    /\ query # <<>>
    /\ \/ name # <<>> /\ includes(toLowerCase(name), toLowerCase(query))
       \/ ~IsExpandable(v) /\ includes(toLowerCase(String(v)), toLowerCase(query))

\* C17 as claimed: for every rendered node and the current query, isMatch
\* is true exactly when the query is not empty and is, ignoring case, a
\* substring of the node's name or, for a scalar node, of the string form
\* of its value, null included.
C17_IsMatchAsClaimed ==
    \A path \in DOMAIN nodes :
        LET name == NameAt(parsedData(value), path)
            v == ValueAt(parsedData(value), path)
        IN isMatch(name, v, searchTerm) <=> isMatchClaimed(name, v, searchTerm)

\* The code agrees with the claim on every node whose value is not null.
C17_IsMatchExceptNull ==
    \A path \in DOMAIN nodes :
        LET name == NameAt(parsedData(value), path)
            v == ValueAt(parsedData(value), path)
        IN getDataType(v) # "null" =>
              (isMatch(name, v, searchTerm) <=> isMatchClaimed(name, v, searchTerm))

\* The rendered nodes that match the term
MatchSet(term) ==
    {p \in DOMAIN nodes :
        isMatch(NameAt(parsedData(value), p), ValueAt(parsedData(value), p), term)}

\* The k-th match (from 0) in document order
IsMatchNumber(target, k, term) ==
    /\ target \in MatchSet(term)
    /\ Cardinality({q \in MatchSet(term) : PathBefore(q, target)}) = k

\* The translation that puts the centre of the card of the node at path
\* into the centre of the container
CentredOn(path) ==
    [x |-> RSub(Rat(ContainerRect.width, 2),
                RMul(scale, Rat(2 * ColumnWidth * Len(path) + CardSize.w, 2))),
     y |-> RSub(Rat(ContainerRect.height, 2),
                RMul(scale, Rat(2 * RowHeight * RowOf(nodes, path) + CardSize.h, 2)))]

\* The step focuses the k-th match of the term and leaves the cursor there
FocusesMatch(k, term) ==
    \E target \in MatchSet(term) :
        /\ IsMatchNumber(target, k, term)
        /\ lastOp'.focused = <<target>>
        /\ matchIndex' = k
        /\ position' = CentredOn(target)
        /\ scale' = scale

SearchOps == {"queryChange", "findTimer", "searchEnter"}

C19_NextMatch ==
    [][(lastOp'.op = "searchEnter" /\ searchTerm # <<>>) =>
          LET n == Cardinality(MatchSet(searchTerm))
          IN /\ searchTrigger' = searchTrigger + 1
             /\ n > 0 => FocusesMatch((matchIndex + 1) % n, searchTerm)
             /\ n = 0 => /\ matchIndex' = matchIndex
                         /\ position' = position /\ scale' = scale]_vars

\* C19 witness: the third Enter, with three rendered matches, wrapped the
\* cursor around from match 2 to match 0.
C19_Witness ==
    /\ lastOp.op = "searchEnter"
    /\ searchTrigger = 3
    /\ lastOp.reported = <<Count(3)>>
    /\ matchIndex = 0
    /\ lastOp.focused = <<<<1>>>>

\* C20 as claimed: a search step with nothing to focus leaves the viewport
\* unchanged; the empty query reports null, and a non-empty query without
\* a rendered match reports 0, so that hasMatches is false.
C20_NothingToFocus ==
    [][lastOp'.op \in SearchOps =>
          LET nothing == searchTerm' = <<>> \/ MatchSet(searchTerm') = {}
          IN /\ nothing => position' = position /\ scale' = scale
             /\ (lastOp'.op = "queryChange" /\ searchTerm' = <<>>) =>
                   /\ lastOp'.reported = <<NullCount>>
                   /\ hasMatches(searchMatchCount') = "null"
             /\ (lastOp'.ran /\ nothing) =>
                   /\ lastOp'.reported = <<Count(0)>>
                   /\ hasMatches(searchMatchCount') = "false"]_vars

\* C20, amended: the report of 0 is made while the graph is rendered;
\* behind the error placeholder a non-empty query reports nothing and the
\* match count stays as it was.
C20_NothingToFocusRendered ==
    [][lastOp'.op \in SearchOps =>
          LET nothing == searchTerm' = <<>> \/ MatchSet(searchTerm') = {}
          IN /\ nothing => position' = position /\ scale' = scale
             /\ (lastOp'.op = "queryChange" /\ searchTerm' = <<>>) =>
                   /\ lastOp'.reported = <<NullCount>>
                   /\ hasMatches(searchMatchCount') = "null"
             /\ (lastOp'.ran /\ nothing /\ ~showsPlaceholder(value)) =>
                   /\ lastOp'.reported = <<Count(0)>>
                   /\ hasMatches(searchMatchCount') = "false"
             /\ (lastOp'.ran /\ showsPlaceholder(value)) =>
                   /\ lastOp'.reported = <<>>
                   /\ lastOp'.op = "findTimer" => searchMatchCount' = searchMatchCount]_vars

\* C20 witness: the timer of the query "null" found no match: 0 was
\* reported, hasMatches is false, and the viewport is where it was.
C20_Witness ==
    /\ lastOp.op = "findTimer"
    /\ searchTerm = <<"n", "u", "l", "l">>
    /\ lastOp.reported = <<Count(0)>>
    /\ hasMatches(searchMatchCount) = "false"
    /\ position = DefaultPosition

(***************************************************************************)
(* Search and the rendered set                                             *)
(***************************************************************************)
PathsOfDocument == IF showsPlaceholder(value) THEN {} ELSE PathsOf(parsedData(value))

\* A position is visible when each of its ancestors is mounted and expanded
\* and shows at least as many items as the position's index in it
Visible(path) ==
    \A i \in 1..Len(path) :
        LET parent == SubSeq(path, 1, i - 1)
        IN /\ parent \in DOMAIN nodes
           /\ nodes[parent].isExpanded
           /\ path[i] <= nodes[parent].visibleItems

\* The positions of the document whose node matches the term, visible or not
DocumentMatches(term) ==
    {p \in PathsOfDocument :
        isMatch(NameAt(parsedData(value), p), ValueAt(parsedData(value), p), term)}

\* C21: whatever the query, a search step counts exactly the matching
\* nodes that are visible and focuses only a visible matching node: a match
\* below a collapsed ancestor or behind its parent's visibleItems cutoff is
\* neither counted nor focused.
C21_MatchesAreRendered ==
    [][(lastOp'.op \in SearchOps /\ lastOp'.ran) =>
          LET visibleMatches == {p \in DocumentMatches(searchTerm') : Visible(p)}
          IN /\ \A i \in DOMAIN lastOp'.reported :
                   lastOp'.reported[i] = Count(Cardinality(visibleMatches))
             /\ \A i \in DOMAIN lastOp'.focused :
                   lastOp'.focused[i] \in visibleMatches]_vars

\* C21 witness: Enter counted and focused the only visible match while the
\* document held another match behind the pagination cutoff.
C21_Witness ==
    /\ lastOp.op = "searchEnter"
    /\ lastOp.reported = <<Count(1)>>
    /\ lastOp.focused = <<<<1, 1>>>>
    /\ <<1, 51>> \in DocumentMatches(searchTerm)
    /\ ~Visible(<<1, 51>>)

(***************************************************************************)
(* Paths of the nodes (C22, C23)                                           *)
(***************************************************************************)
\* The escaping the path builder is said to do: a backslash before every
\* double quote and every backslash of the key
RECURSIVE escapeClaimed(_)
escapeClaimed(key) ==
    IF key = <<>> THEN <<>>
    ELSE (IF Head(key) \in {"\"", "\\"} THEN <<"\\", Head(key)>> ELSE <<Head(key)>>)
         \o escapeClaimed(Tail(key))

getChildPathClaimed(parentPath, key, parentType) ==
    IF parentType = "array" THEN parentPath \o <<"[">> \o key \o <<"]">>
    ELSE IF IsIdentifier(key) THEN parentPath \o <<".">> \o key
         ELSE parentPath \o <<"[", "\"">> \o escapeClaimed(key) \o <<"\"", "]">>

\* The parent, its path and the key of the node a tooltip describes
TooltipParent == ValueAt(parsedData(value), SubSeq(tooltipData.node, 1, Len(tooltipData.node) - 1))
TooltipParentPath ==
    PathString(parsedData(value), SubSeq(tooltipData.node, 1, Len(tooltipData.node) - 1))
TooltipKey == ChildKey(TooltipParent, tooltipData.node[Len(tooltipData.node)])
HasBackslash(key) == \E i \in DOMAIN key : key[i] = "\\"

\* C23: the path of a child is parentPath.key for an identifier key,
\* parentPath[index] for a child of an array, and otherwise parentPath["key"]
\* with every double quote and every backslash of the key backslash-escaped.
C23_PathAsClaimed ==
    (tooltipData.shown /\ tooltipData.node # <<>>) =>
        tooltipData.path =
            getChildPathClaimed(TooltipParentPath, TooltipKey, getDataType(TooltipParent))

\* C23, the part the code keeps: the same for every key without a backslash
C23_PathWithoutBackslash ==
    (tooltipData.shown /\ tooltipData.node # <<>> /\ ~HasBackslash(TooltipKey)) =>
        tooltipData.path =
            getChildPathClaimed(TooltipParentPath, TooltipKey, getDataType(TooltipParent))

\* C23, the part the code keeps: two rendered nodes never have the same path
C23_PathsDistinct ==
    \A p, q \in DOMAIN nodes :
        PathString(parsedData(value), p) = PathString(parsedData(value), q) => p = q

\* C23: the tooltip shows the path of a key that ends in a backslash
C23_BackslashShown ==
    /\ tooltipData.shown
    /\ tooltipData.node # <<>>
    /\ TooltipKey = <<"a", "\\">>
    /\ tooltipData.path = <<"$", "[", "\"", "a", "\\", "\"", "]">>

\* The path evaluator that matches the path builder: '$' is the root, '.key'
\* the member key of an object, '[digits]' an item of an array and '["key"]'
\* the member whose key is the text between the quotes with \" read as a
\* double quote and \\ as a backslash.  Undefined is a path that does not
\* parse or names nothing.
Undefined == [ok |-> FALSE]
Resolved(v) == [ok |-> TRUE, value |-> v]

RECURSIVE scanQuoted(_, _, _)
scanQuoted(s, i, acc) ==
    IF i > Len(s) THEN [ok |-> FALSE]
    ELSE IF s[i] = "\\"
         THEN IF i + 1 <= Len(s) /\ s[i + 1] \in {"\"", "\\"}
              THEN scanQuoted(s, i + 2, Append(acc, s[i + 1]))
              ELSE [ok |-> FALSE]
         ELSE IF s[i] = "\""
              THEN IF i + 1 <= Len(s) /\ s[i + 1] = "]"
                   THEN [ok |-> TRUE, key |-> acc, next |-> i + 2]
                   ELSE [ok |-> FALSE]
              ELSE scanQuoted(s, i + 1, Append(acc, s[i]))

memberOf(v, key) ==
    IF getDataType(v) = "object" /\ \E m \in DOMAIN v.members : v.members[m].key = key
    THEN Resolved(v.members[CHOOSE m \in DOMAIN v.members : v.members[m].key = key].val)
    ELSE Undefined

itemOf(v, digits) ==
    IF getDataType(v) = "array" /\ \E k \in DOMAIN v.items : DigitsOf(k - 1) = digits
    THEN Resolved(v.items[CHOOSE k \in DOMAIN v.items : DigitsOf(k - 1) = digits])
    ELSE Undefined

RECURSIVE evaluateFrom(_, _)
evaluateFrom(v, s) ==
    IF s = <<>> THEN Resolved(v)
    ELSE IF Head(s) = "."
         THEN LET rest == Tail(s)
                  stops == {i \in DOMAIN rest : ~(IsIdentifierStart(rest[i]) \/ IsDigit(rest[i]))}
                  n == IF stops = {} THEN Len(rest)
                       ELSE (CHOOSE i \in stops : \A j \in stops : i <= j) - 1
                  child == memberOf(v, SubSeq(rest, 1, n))
              IN IF IsIdentifier(SubSeq(rest, 1, n)) /\ child.ok
                 THEN evaluateFrom(child.value, SubSeq(rest, n + 1, Len(rest)))
                 ELSE Undefined
         ELSE IF Head(s) = "[" /\ Len(s) >= 2 /\ s[2] = "\""
              THEN LET quoted == scanQuoted(s, 3, <<>>)
                   IN IF quoted.ok /\ memberOf(v, quoted.key).ok
                      THEN evaluateFrom(memberOf(v, quoted.key).value,
                                        SubSeq(s, quoted.next, Len(s)))
                      ELSE Undefined
              ELSE IF Head(s) = "["
                   THEN LET closes == {i \in DOMAIN s : s[i] = "]"}
                            n == IF closes = {} THEN 0
                                 ELSE CHOOSE i \in closes : \A j \in closes : i <= j
                            child == IF n = 0 THEN Undefined ELSE itemOf(v, SubSeq(s, 2, n - 1))
                        IN IF child.ok
                           THEN evaluateFrom(child.value, SubSeq(s, n + 1, Len(s)))
                           ELSE Undefined
                   ELSE Undefined

evaluatePath(root, path) ==
    IF path # <<>> /\ Head(path) = "$" THEN evaluateFrom(root, Tail(path)) ELSE Undefined

\* C22: the path of every node, evaluated against the document, yields the
\* value of that node.
C22_PathRoundTrip ==
    tooltipData.shown =>
        evaluatePath(parsedData(value), tooltipData.path) = Resolved(tooltipData.value)

\* C22, the part that holds: the same for every node none of whose keys has a
\* backslash
NoBackslashOnPath(root, path) ==
    \A n \in 1..Len(path) :
        ~HasBackslash(ChildKey(ValueAt(root, SubSeq(path, 1, n - 1)), path[n]))

C22_RoundTripWithoutBackslash ==
    (tooltipData.shown /\ NoBackslashOnPath(parsedData(value), tooltipData.node)) =>
        evaluatePath(parsedData(value), tooltipData.path) = Resolved(tooltipData.value)

\* C22: the path of the key of two backslashes evaluates to the value of the
\* key of one backslash
C22_WrongValue ==
    /\ tooltipData.shown
    /\ tooltipData.node # <<>>
    /\ TooltipKey = <<"\\", "\\">>
    /\ tooltipData.value = Num(8)
    /\ evaluatePath(parsedData(value), tooltipData.path) = Resolved(Num(12))

\* C22: a key with a quote, below a key with a space and an array index, is
\* found again
C22_QuoteFound ==
    /\ tooltipData.shown
    /\ Len(tooltipData.node) = 4
    /\ TooltipKey = <<"q", "\"">>
    /\ evaluatePath(parsedData(value), tooltipData.path) = Resolved(Num(11))

(***************************************************************************)
(* Placement of the tooltip (C24, C25)                                     *)
(***************************************************************************)
Right(rect) == rect.left + rect.width
Bottom(rect) == rect.top + rect.height
OverflowsRight(rect, win) == Right(rect) + 12 + 320 > win.w
OverflowsBottom(rect, win) == rect.top + 200 > win.h
ShowOps == {"nodeEnter"}

TooltipBox == Rect(tooltipPosition.left, tooltipPosition.top, 320, 200)
Overlap(a, b) ==
    /\ a.left < Right(b)
    /\ b.left < Right(a)
    /\ a.top < Bottom(b)
    /\ b.top < Bottom(a)
Inside(a, win) ==
    /\ a.left >= 0
    /\ a.top >= 0
    /\ Right(a) <= win.w
    /\ Bottom(a) <= win.h

\* C25: for every anchor inside the viewport, the 320x200 box of the placed
\* tooltip lies within the viewport and does not overlap the anchor.
C25_BoxInsideApart ==
    (lastOp.op \in ShowOps /\ lastOp.ran /\ Inside(lastOp.input[1], lastOp.input[2])) =>
        /\ Inside(TooltipBox, lastOp.input[2])
        /\ ~Overlap(TooltipBox, lastOp.input[1])

\* C25, the part that holds: when neither test of the placement finds an
\* overflow, or the anchor has 340 px to its left and the window is at least
\* 220 px high, the box is inside the viewport and apart from the anchor
C25_BoxWithRoom ==
    (/\ lastOp.op \in ShowOps
     /\ lastOp.ran
     /\ Inside(lastOp.input[1], lastOp.input[2])
     /\ OverflowsRight(lastOp.input[1], lastOp.input[2]) => lastOp.input[1].left >= 340
     /\ lastOp.input[2].h >= 220) =>
        /\ Inside(TooltipBox, lastOp.input[2])
        /\ ~Overlap(TooltipBox, lastOp.input[1])

\* C25: the box of the tooltip covers its anchor
C25_Covers ==
    /\ lastOp.op = "nodeEnter"
    /\ lastOp.ran
    /\ Inside(lastOp.input[1], lastOp.input[2])
    /\ Overlap(TooltipBox, lastOp.input[1])

\* C25: the box of the tooltip ends below the viewport
C25_Below ==
    /\ lastOp.op = "nodeEnter"
    /\ lastOp.ran
    /\ Inside(lastOp.input[1], lastOp.input[2])
    /\ Bottom(TooltipBox) > lastOp.input[2].h

(***************************************************************************)
(* Hiding the tooltip (C26, C27)                                           *)
(***************************************************************************)
LeaveOps == {"nodeLeave", "tooltipLeave"}

\* C26: leaving a node or the tooltip does not hide the tooltip at once, and
\* after the pointer has entered a node or the tooltip, which cancels the
\* pending hide, no hide timer hides the tooltip that is visible under it.
C26_HideDebounced ==
    [][/\ lastOp'.op \in LeaveOps => tooltipData' = tooltipData
       /\ (lastOp'.op = "hideTimeout" /\ tooltipData.shown /\ hover.on # "none")
            => tooltipData'.shown]_vars

\* C26, the part that holds: leaving starts a hide timer and leaves the
\* tooltip as it is, entering the tooltip or (outside a gesture) a node
\* cancels the timer the last leave started, and a hide timer that fires
\* hides the tooltip
C26_TimerOfLastLeave ==
    [][/\ lastOp'.op \in LeaveOps =>
            /\ tooltipData' = tooltipData
            /\ Len(hideTimers') = Len(hideTimers) + 1
            /\ hideTimers'[Len(hideTimers')].current
       /\ (lastOp'.op = "tooltipEnter" \/ (lastOp'.op = "nodeEnter" /\ lastOp'.ran)) =>
            \A i \in DOMAIN hideTimers' : ~hideTimers'[i].current
       /\ lastOp'.op = "hideTimeout" => ~tooltipData'.shown]_vars

\* C26, the part that holds: a visible tooltip the pointer is neither on nor
\* on the node of is eventually hidden, unless the pointer enters something
C26_EventuallyHidden ==
    (tooltipData.shown /\ hover.on = "none") ~> (~tooltipData.shown \/ hover.on # "none")

\* C26: a hide timer that an earlier leave started, and that no enter
\* cancelled, hides the tooltip of the node the pointer is on
C26_HiddenUnderPointer ==
    /\ lastOp.op = "hideTimeout"
    /\ hover.on = "node"
    /\ ~tooltipData.shown
    /\ ~isPanning
    /\ ~isWheeling

\* C27: no tooltip is visible while a pan or a wheel gesture is in progress.
C27_NoTooltipInGesture == (isPanning \/ isWheeling) => ~tooltipData.shown

\* C27 witness: the pointer came onto a node during a wheel gesture and no
\* tooltip was shown.
C27_Witness ==
    /\ lastOp.op = "nodeEnter"
    /\ ~lastOp.ran
    /\ isWheeling
    /\ hover.on = "node"
    /\ ~tooltipData.shown

(***************************************************************************)
(* Text that is not JSON (C28)                                             *)
(***************************************************************************)
IsValid(text) == JSONparse(text).ok
RendersGraph == <<>> \in DOMAIN nodes

\* C28: while the text is not valid JSON the view shows the placeholder and
\* no node, whatever is done, and when a valid document is supplied a graph
\* with a fresh budget is rendered.
C28_PlaceholderUntilValid ==
    [][/\ ~IsValid(value') => (showsPlaceholder(value') /\ nodes' = <<>>)
       /\ IsValid(value') => (~showsPlaceholder(value') /\ RendersGraph')
       /\ (lastOp'.op = "load" /\ IsValid(value')) =>
            /\ nodes' = Mount(value', InitialBudget, globalAction'.type).nodes
            /\ budget' = Mount(value', InitialBudget, globalAction'.type).budget]_vars

\* C28, the part that holds: the same for every valid document but null
C28_PlaceholderUntilNotNull ==
    [][/\ ~IsValid(value') => (showsPlaceholder(value') /\ nodes' = <<>>)
       /\ (IsValid(value') /\ parsedData(value') # Null)
            => (~showsPlaceholder(value') /\ RendersGraph')
       /\ (lastOp'.op = "load" /\ IsValid(value')) =>
            /\ nodes' = Mount(value', InitialBudget, globalAction'.type).nodes
            /\ budget' = Mount(value', InitialBudget, globalAction'.type).budget]_vars

\* C28: the valid document null, supplied after a text that is not JSON, is
\* answered with the placeholder
C28_NullShowsPlaceholder ==
    /\ lastOp.op = "load"
    /\ value = "null"
    /\ IsValid(value)
    /\ showsPlaceholder(value)
    /\ nodes = <<>>

\* C28: a document supplied after a text that is not JSON, and after the
\* budget of an earlier document was used up, is rendered with a fresh budget
C28_FreshAfterError ==
    /\ lastOp.op = "load"
    /\ value = "W"
    /\ RendersGraph
    /\ budget = Mount("W", InitialBudget, globalAction.type).budget

(***************************************************************************)
(* The debounce effects of App (C29)                                       *)
(***************************************************************************)
OnlyTimerFor(timers, v) == timers = <<[value |-> v, current |-> TRUE]>>

\* C29: a change of the text in the editor, or of the text of the search
\* box, clears the pending debounce timer and sets a new one; a timer that
\* fires commits the live value of that moment; and the committed value
\* eventually equals the live value unless the live value changes again.
C29_Debounce ==
    /\ [][/\ lastOp'.op = "inputChange" => OnlyTimerFor(inputTimers', jsonInput')
          /\ lastOp'.op = "searchChange" => OnlyTimerFor(searchTimers', searchInput')
          /\ lastOp'.op = "debounceInput" =>
                (lastOp'.input = <<jsonInput>> /\ value' = jsonInput')
          /\ lastOp'.op \in {"queryChange", "debounceSearch"} =>
                searchTerm' = searchInput']_vars
    /\ \A t \in DebounceTexts : (jsonInput = t /\ value # t) ~> (value = t \/ jsonInput # t)
    /\ \A q \in Queries :
          (searchInput = q /\ searchTerm # q) ~> (searchTerm = q \/ searchInput # q)

\* C29 witness: a second change of the text has cleared the timer of the
\* first one, whose text was never committed, and set the only pending one.
C29_Witness ==
    /\ lastOp.op = "inputChange"
    /\ lastOp.ran
    /\ lastOp.from = <<"null">>
    /\ jsonInput = "bad"
    /\ value = "7"
    /\ OnlyTimerFor(inputTimers, "bad")

(***************************************************************************)
(* The budget after the initial pass (C30)                                 *)
(***************************************************************************)
LaterOps == {"toggle", "loadMore"}

\* C30: the nodes constructed when a collapsed node is expanded or 'show
\* next 50' is clicked take nothing from the budget, which stays as the
\* initial construction pass left it.
C30_BudgetOnlyInitialPass ==
    [][lastOp'.op \in LaterOps =>
          /\ budget' = budget
          /\ \A i \in DOMAIN log' : log'[i].after = log'[i].before]_vars

\* C30: a click on a card constructed a container below it that took 1 from
\* the budget and started expanded
C30_ToggleConsumes ==
    /\ lastOp.op = "toggle"
    /\ \E i \in DOMAIN log :
          /\ log[i].isExpandable
          /\ log[i].isExpanded
          /\ log[i].after = log[i].before - 1

\* C30: so did a click on 'show next 50'
C30_LoadMoreConsumes ==
    /\ lastOp.op = "loadMore"
    /\ \E i \in DOMAIN log :
          /\ log[i].isExpandable
          /\ log[i].isExpanded
          /\ log[i].after = log[i].before - 1

(***************************************************************************)
(* Collapsing discards the descendants (C34)                               *)
(***************************************************************************)
IsBelow(q, path) == Len(q) > Len(path) /\ SubSeq(q, 1, Len(path)) = path

\* The expanded flag of a node constructed with budget b left, after its
\* effect on the last bulk action has run
FlagAtConstruction(isExpandable, depth, b, actionType) ==
    IF actionType = "expand" /\ isExpandable THEN TRUE
    ELSE IF actionType = "collapse" /\ depth # 0 THEN FALSE
         ELSE depth = 0 \/ (isExpandable /\ b > 0)

\* C34: a click that collapses a node leaves none of its descendants
\* mounted; after the click that expands it again each descendant has been
\* constructed by that click, its expanded flag is the one of a first
\* construction with the budget left at that moment and the last bulk
\* action, and its visibleItems is 50; the clicked node keeps its
\* visibleItems.
C34_CollapseDiscards ==
    [][lastOp'.op = "toggle" =>
          LET path == lastOp'.path IN
          /\ nodes'[path].visibleItems = nodes[path].visibleItems
          /\ lastOp'.wasExpanded => \A q \in DOMAIN nodes' : ~IsBelow(q, path)
          /\ ~lastOp'.wasExpanded =>
                \A q \in DOMAIN nodes' :
                    IsBelow(q, path) =>
                        /\ q \notin DOMAIN nodes
                        /\ nodes'[q].visibleItems = PageSize
                        /\ nodes'[q].clicks = 0
                        /\ \E i \in DOMAIN log' :
                              /\ log'[i].path = q
                              /\ nodes'[q].isExpanded =
                                    FlagAtConstruction(log'[i].isExpandable, Len(q),
                                                       log'[i].before, globalAction.type)]_vars

\* C34 witness: a node that had been paged further was expanded again by a
\* click, and a container below it, expanded by a fresh load of the document,
\* was constructed collapsed because no budget was left.
C34_Witness ==
    /\ lastOp.op = "toggle"
    /\ ~lastOp.wasExpanded
    /\ globalAction.type = "idle"
    /\ nodes[lastOp.path].visibleItems > PageSize
    /\ \E q \in DOMAIN nodes :
          /\ IsBelow(q, lastOp.path)
          /\ nodes[q].type \in {"object", "array"}
          /\ ~nodes[q].isExpanded
          /\ nodes[q].visibleItems = PageSize
          /\ q \in DOMAIN MountFresh[value, "idle"].nodes
          /\ MountFresh[value, "idle"].nodes[q].isExpanded

(***************************************************************************)
(* Pending hide timers (C35)                                               *)
(***************************************************************************)
\* C35: at most one hide timer of the tooltip is pending, and while the
\* tooltip of the hovered node is shown no hide timer is pending that was
\* set before it was shown.
C35_OneHideTimer ==
    /\ Len(hideTimers) <= 1
    /\ (tooltipData.shown /\ hover.on = "node" /\ tooltipData.node = hover.path)
          => hideTimers = <<>>

\* C35, the part that holds: outside a gesture, showing a tooltip clears the
\* timer of the last hide, and no timer is marked as the last one then
C35_LastTimerCleared ==
    [][(lastOp'.op = "nodeEnter" /\ lastOp'.ran) =>
          /\ Len(hideTimers') = Len(SelectSeq(hideTimers, LAMBDA t : ~t.current))
          /\ \A i \in DOMAIN hideTimers' : ~hideTimers'[i].current]_vars

\* C35: two hide timers are pending, the older one set before a hover
\* during a wheel gesture
C35_TwoPending ==
    /\ Len(hideTimers) = 2
    /\ lastOp.op = "nodeLeave"
    /\ isWheeling

(***************************************************************************)
(* The placeholder and valid documents (C38)                               *)
(***************************************************************************)
RootHolds(data) ==
    /\ RendersGraph
    /\ nodes[<<>>].type = getDataType(data)
    /\ ValueAt(parsedData(value), <<>>) = data

\* C38: the placeholder is shown only for a text that fails to parse, and
\* every valid document, a scalar or null included, is rendered as a graph
\* whose root node holds the parsed value.
C38_PlaceholderOnlyForInvalid ==
    /\ showsPlaceholder(value) => ~IsValid(value)
    /\ IsValid(value) => RootHolds(JSONparse(value).data)

\* C38, the part that holds: every valid document but null is rendered with
\* its value at the root, and a text that fails to parse shows the
\* placeholder
C38_RenderedUnlessNull ==
    /\ ~IsValid(value) => (showsPlaceholder(value) /\ ~RendersGraph)
    /\ (IsValid(value) /\ JSONparse(value).data # Null) =>
          (~showsPlaceholder(value) /\ RootHolds(JSONparse(value).data))

\* C38: a scalar document is rendered as a graph of one node
C38_ScalarRendered ==
    /\ value = "7"
    /\ DOMAIN nodes = {<<>>}
    /\ nodes[<<>>].type = "number"

(***************************************************************************)
(* The cursor after a change of the query (C39)                            *)
(***************************************************************************)
\* The step focuses nothing, or the first match of the term
FocusesAtMostFirst(term) ==
    \/ lastOp'.focused = <<>>
    \/ \E target \in MatchSet(term) :
          /\ IsMatchNumber(target, 0, term)
          /\ lastOp'.focused = <<target>>

\* C39: the response to a change of the query to a non-empty string, the
\* effects at once and the timer after them, focuses no match but match 0
\* and leaves the cursor at 0, also when Enter was pressed for earlier
\* queries.
C39_QueryChangeKeepsFirst ==
    [][(lastOp'.op \in {"queryChange", "findTimer"} /\ searchTerm' # <<>>) =>
          /\ matchIndex' = 0
          /\ FocusesAtMostFirst(searchTerm')]_vars

\* C39, the part that holds: the same while Enter was never pressed
C39_BeforeFirstEnter ==
    [][(lastOp'.op \in {"queryChange", "findTimer"} /\ searchTerm' # <<>>
          /\ searchTrigger = 0) =>
          /\ matchIndex' = 0
          /\ FocusesAtMostFirst(searchTerm')]_vars

\* C39: after Enter had been pressed, a change of the query moved the cursor
\* to 1 and focused the second match
C39_QueryChangeAdvanced ==
    /\ lastOp.op = "queryChange"
    /\ searchTrigger > 0
    /\ matchIndex = 1
    /\ lastOp.focused # <<>>
    /\ findTimer

(***************************************************************************)
(* The match count while the debounce of the search box is pending (C37)   *)
(***************************************************************************)
\* C37: while the text of the search box is not the term the views were
\* given, so that no count was computed for it, the match count is null,
\* and "no matches" is not shown while the search box is empty.
C37_NullUntilEvaluated ==
    /\ searchInput # searchTerm => searchMatchCount = NullCount
    /\ searchInput = <<>> => hasMatches(searchMatchCount) # "false"

\* C37, the part that holds: the change of the text of the search box
\* itself sets the match count to null
C37_ResetAtOnce ==
    [][lastOp'.op = "searchChange" => searchMatchCount' = NullCount]_vars

\* C37: the search box was emptied, and the graph view's timer for the term
\* before reported that nothing matches
C37_StaleCountShown ==
    /\ searchInput = <<>>
    /\ searchTerm # <<>>
    /\ lastOp.op = "findTimer"
    /\ hasMatches(searchMatchCount) = "false"

(***************************************************************************)
(* The path of the table view and a replaced document (C33)                *)
(***************************************************************************)
\* The path leads to a value of the document: each segment names a member
\* of the object or an item of the array reached so far
RECURSIVE ResolvesIn(_, _)
ResolvesIn(data, path) ==
    \/ path = <<>>
    \/ /\ IsExpandable(data)
       /\ OwnPositions(data, propertyName(Head(path))) # {}
       /\ ResolvesIn(getProperty(data, Head(path)), Tail(path))

\* C33: when the document is replaced by a valid one, a path of the table
\* view that leads to a value of the new document is kept, and a path that
\* does not is reset to the root.
C33_PathResetWhenStale ==
    [][(lastOp'.op = "load" /\ IsValid(value')) =>
          IF ResolvesIn(JSONparse(value').data, tablePath)
          THEN tablePath' = tablePath
          ELSE tablePath' = <<>>]_vars

\* C33, the part that holds: the same when the root of the new document is
\* an object, an array or a scalar that is not falsy, and no segment of
\* the path names an inherited property
C33_PathResetTruthyRoot ==
    [][(lastOp'.op = "load" /\ IsValid(value') /\ ~IsFalsy(rootData(value'))
          /\ \A i \in DOMAIN tablePath : propertyName(tablePath[i]) \notin InheritedKeys) =>
          IF ResolvesIn(JSONparse(value').data, tablePath)
          THEN tablePath' = tablePath
          ELSE tablePath' = <<>>]_vars

\* C33: the document was replaced by 0 and the path into the rows of the
\* document before is kept
C33_StalePathKept ==
    /\ lastOp.op = "load"
    /\ value = "0"
    /\ Len(tablePath) = 3

\* C33: the document was replaced by U, which has no member "constructor",
\* and the path to that member of the document before is kept
C33_InheritedPathKept ==
    /\ lastOp.op = "load"
    /\ value = "U"
    /\ tablePath = <<Key(ConstructorKey)>>

(***************************************************************************)
(* The match count and the active view (C36)                               *)
(***************************************************************************)
\* C36: while the code view is active a report of the graph view (from its
\* timer or on Enter) leaves the match count as it is, and while the graph
\* view is active the match count after a change of the term is what the
\* graph view reported, not the count of the hidden editor.
C36_CountFromActiveView ==
    [][/\ (viewMode' = "code" /\ lastOp'.op \in {"findTimer", "searchEnter"})
            => searchMatchCount' = searchMatchCount
       /\ (viewMode' = "graph" /\ lastOp'.op = "queryChange")
            => searchMatchCount' = afterReports(searchMatchCount, lastOp'.reported)]_vars

\* C36, the part that holds: a switch of the view sets the match count to
\* null
C36_ResetOnSwitch ==
    [][lastOp'.op = "viewMode" => searchMatchCount' = NullCount]_vars

\* C36: in the code view the editor had found no match, and the timer of
\* the hidden graph view put its three matches in place of that
C36_HiddenGraphReplaced ==
    /\ viewMode = "code"
    /\ lastOp.op = "findTimer"
    /\ searchMatchCount = Count(3)

(***************************************************************************)
(* The toolbar commits at once (C40)                                       *)
(***************************************************************************)
ImmediateOps == {"format", "minify", "indent", "clear", "upload"}

\* C40: after a Prettify or Minify of a text that parses, a change of the
\* indentation with such a text, a Clear that went through and a file load,
\* the committed text is the live text; every pending debounce timer holds
\* the live text, and when it fires the committed text is the live text,
\* never an older one.
C40_CommittedAtOnce ==
    /\ [](\A i \in DOMAIN inputTimers : inputTimers[i].value = jsonInput)
    /\ [][/\ (lastOp'.op \in ImmediateOps /\ lastOp'.ran) => value' = jsonInput'
          /\ lastOp'.op = "debounceInput" => (value' = jsonInput /\ jsonInput' = jsonInput)]_vars

\* C40 witness: a text was typed and not yet committed when Prettify put
\* another text, the formatted one, in place of both; the timer that is
\* pending now holds the formatted text
C40_Witness ==
    /\ lastOp.op = "format"
    /\ lastOp.ran
    /\ lastOp.from[1] # lastOp.from[2]
    /\ jsonInput # lastOp.from[1]
    /\ value = jsonInput
    /\ inputTimers = <<[value |-> jsonInput, current |-> TRUE]>>

(***************************************************************************)
(* Notifications expire (C31)                                              *)
(***************************************************************************)
IsPrefix(a, b) == Len(a) <= Len(b) /\ SubSeq(b, 1, Len(a)) = a

\* C31: the timer of a notification removes that notification, the oldest
\* one on the screen, and no other; nothing else removes a notification;
\* and every notification on the screen is removed in the end, whatever is
\* added meanwhile.
C31_ToastsExpire ==
    /\ [][IF lastOp'.op = "toastTimeout"
          THEN /\ lastOp'.input = <<toasts[1].id>>
               /\ toasts' = Tail(toasts)
          ELSE IsPrefix(toasts, toasts')]_vars
    /\ \A id \in ToastIds :
          (id \in ToastIdsOf(toasts)) ~> (id \notin ToastIdsOf(toasts))

\* C31 witness: of two notifications on the screen the older one was
\* removed by its timer and the other one is still shown
C31_Witness ==
    /\ lastOp.op = "toastTimeout"
    /\ Len(lastOp.from[1]) = 2
    /\ toasts = Tail(lastOp.from[1])
    /\ toasts[1].type = "error"

(***************************************************************************)
(* A clipboard write that fails (C32)                                      *)
(***************************************************************************)
AddedToast(type) == toasts' = Append(toasts, toasts'[Len(toasts')]) /\ toasts'[Len(toasts')].type = type

\* C32: when the write fails, copy-document and copy-path add an error
\* notification, show no success state and let nothing escape; when it
\* succeeds, copy-document adds a success notification and copy-path shows
\* "Copied".
C32_FailureIsNotified ==
    [][(lastOp'.op \in {"copy", "copyPath"}) =>
          IF lastOp'.ran
          THEN IF lastOp'.op = "copy" THEN AddedToast("success") ELSE copied'
          ELSE /\ Len(toasts') = Len(toasts) + 1
               /\ AddedToast("error")
               /\ copied' = copied
               /\ ~lastOp'.escaped]_vars

\* C32, the part that holds: copy-document
C32_CopyDocument ==
    [][(lastOp'.op = "copy") =>
          /\ Len(toasts') = Len(toasts) + 1
          /\ AddedToast(IF lastOp'.ran THEN "success" ELSE "error")
          /\ ~lastOp'.escaped]_vars

\* C32: the write of copy-path failed, "Copied" is shown, no notification
\* was added and the rejection was left unhandled
C32_CopyPathFailedSilently ==
    /\ lastOp.op = "copyPath"
    /\ ~lastOp.ran
    /\ copied
    /\ toasts = lastOp.from[3]
    /\ lastOp.escaped

================================================================================
